---- MODULE Spec2Model ----
(***************************************************************************)
(* Claude-SkillXfer: structure detection, content collection and the       *)
(* installation orchestrator (cli_adapters/base.py, cli.py).               *)
(*                                                                         *)
(* A skill source directory is a set of filesystem nodes.  A node is       *)
(*   [p |-> path, k |-> "dir" | "file", rd |-> "ok" | "decode" | "perm"]   *)
(* where the path is the sequence of path segments below the skill         *)
(* directory and rd says what read_text(encoding='utf-8') does on a file:  *)
(* return its text, raise UnicodeDecodeError, or raise PermissionError.    *)
(* A directory exists when it is a node or an ancestor of a node.          *)
(***************************************************************************)
EXTENDS Integers, Sequences, FiniteSets, TLC

VARIABLES
    tree,           \* the skill source directory handed to transform_skill
    structure,      \* result of _detect_skill_structure
    out,            \* result of transform_skill (SkillOutput, or the raise)
    cpc,            \* position of the transform: "start" | "done" | "again" | "listed"
    target_clis,    \* main: the target identifiers of the run
    skills,         \* main: the skill names of the run
    force,          \* main: args.force
    fs,             \* the installation directories: <<cli, skill>> -> tree
    pc,             \* "main" | "install_skills" | "done" | "crashed" | "idle"
    ci,             \* main: index of the current target in target_clis
    si,             \* install_skills: index of the current skill in skills
    success_count,  \* install_skills: success_count
    total_success,  \* main: total_success
    exit_code,      \* exit status of the process, -1 while it runs
    console,        \* what was reported, one record per report
    faults,         \* I/O failures the environment has produced in this run
    is_cloned,      \* main: resolve_repository cloned the repository from a URL
    sub_dir,        \* main: args.sub_dir as a path, <<>> when not given
    keep_clone,     \* main: args.keep_clone
    temp_dir,       \* the paths that exist in the temporary clone directory
    cleanup,        \* main: outcome of the cleanup, "pending" before it
    content,        \* the instruction document handed to the text transform
    fn,             \* the transform applied: "common" or a target identifier
    mds             \* the results of applying it once, and again to its result

cvars == <<tree, structure, out, cpc>>

rvars == <<is_cloned, sub_dir, keep_clone, temp_dir, cleanup>>

ovars == <<target_clis, skills, force, fs, pc, ci, si, success_count,
           total_success, exit_code, console, faults, rvars>>

tvars == <<content, fn, mds>>

vars == <<cvars, ovars, tvars>>

(***************************************************************************)
(* Bounds                                                                  *)
(***************************************************************************)
MaxEntries == 3     \* nodes put into a source directory
MaxClis == 2        \* length of target_clis
MaxSkills == 2      \* length of skills
MaxPre == 1         \* installation directories that exist before the run
MaxFaults == 1      \* I/O failures (write, rmtree) within one run
MaxParts == 5       \* fragments of a document given to a text transform
MaxLines == 5       \* lines of a document with a metadata header
MaxGlobLines == 3   \* lines of a metadata header that gives globs

(***************************************************************************)
(* Paths                                                                   *)
(***************************************************************************)
IsPrefix(a, b) == Len(a) <= Len(b) /\ SubSeq(b, 1, Len(a)) = a

IsProperPrefix(a, b) == Len(a) < Len(b) /\ SubSeq(b, 1, Len(a)) = a

\* Path.exists(): the path is the skill directory, a node, or an ancestor of one
Exists(t, path) == path = <<>> \/ \E n \in t : IsPrefix(path, n.p)

\* Path.relative_to(dir)
RelativeTo(path, dir) == SubSeq(path, Len(dir) + 1, Len(path))

\* dir.rglob("*") restricted to is_file(): every file below dir, at any depth
RGlobFiles(t, dir) == {n \in t : n.k = "file" /\ IsProperPrefix(dir, n.p)}

\* the suffix of a file name, as the glob patterns "*.py" and "*.json" see it
Suffix(name) ==
    CASE name \in {"run.py", "util.py"} -> ".py"
      [] name \in {"data.json"} -> ".json"
      [] name \in {"SKILL.md"} -> ".md"
      [] OTHER -> ""

Last(path) == path[Len(path)]

(***************************************************************************)
(* Mappings {relative path: content} are sets of entries [k, v] with one   *)
(* entry per key; dict.update keeps the updating side on a key collision.  *)
(* A content value names the source file it was read from (src), whether   *)
(* _transform_script was applied to it (sub) and, for the generated        *)
(* README, the script names it lists.                                      *)
(***************************************************************************)
Keys(m) == {e.k : e \in m}

\* a plausible slip: the entry being replaced is not dropped
UpdateKeepBoth(m, u) == u \cup m

Update(m, u) == u \cup {e \in m : e.k \notin Keys(u)}

Text(n) == [src |-> n.p, sub |-> FALSE, lists |-> {}]

\* base.py _transform_script: the placeholder token is replaced in the text
TransformScript(c) == [c EXCEPT !.sub = TRUE]

(***************************************************************************)
(* base.py _detect_skill_structure                                         *)
(***************************************************************************)
\* a plausible slip: a root SKILL.md is preferred over the nested one, as in
\* the validity check of install_skill
DetectSkillStructureRootFirst(t) ==
    LET nested == ~Exists(t, <<"SKILL.md">>) /\ Exists(t, <<"skills", "SKILL.md">>)
        root == IF nested THEN <<"skills">> ELSE <<>>
        hooks == Exists(t, <<"hooks", "scripts">>)
    IN  [ has_skills_subdir |-> nested,
          has_hooks_dir |-> hooks,
          skill_md |-> root \o <<"SKILL.md">>,
          scripts_dir |-> IF hooks THEN <<"hooks", "scripts">> ELSE root \o <<"scripts">>,
          templates_dir |-> root \o <<"templates">>,
          docs_dir |-> root \o <<"docs">>,
          assets_dir |-> root \o <<"assets">> ]

DetectSkillStructure(t) ==
    LET skills_subdir == <<"skills">>
        nested == Exists(t, skills_subdir) /\ Exists(t, skills_subdir \o <<"SKILL.md">>)
        root == IF nested THEN skills_subdir ELSE <<>>
        hooks_dir == <<"hooks">>
        hooks == Exists(t, hooks_dir) /\ Exists(t, hooks_dir \o <<"scripts">>)
    IN  [ has_skills_subdir |-> nested,
          has_hooks_dir |-> hooks,
          skill_md |-> root \o <<"SKILL.md">>,
          scripts_dir |-> IF hooks THEN hooks_dir \o <<"scripts">> ELSE root \o <<"scripts">>,
          templates_dir |-> root \o <<"templates">>,
          docs_dir |-> root \o <<"docs">>,
          assets_dir |-> root \o <<"assets">> ]

(***************************************************************************)
(* base.py _copy_scripts_from_dir: *.py files (transformed) and *.json     *)
(* files below scripts_dir; a file that cannot be read is skipped.         *)
(***************************************************************************)
CopyScriptsFromDir(t, scripts_dir) ==
    LET py == {[k |-> RelativeTo(n.p, scripts_dir), v |-> TransformScript(Text(n))] :
                  n \in {f \in RGlobFiles(t, scripts_dir) :
                            Suffix(Last(f.p)) = ".py" /\ f.rd = "ok"}}
        json == {[k |-> RelativeTo(n.p, scripts_dir), v |-> Text(n)] :
                  n \in {f \in RGlobFiles(t, scripts_dir) :
                            Suffix(Last(f.p)) = ".json" /\ f.rd = "ok"}}
    IN  Update(py, json)

\* a plausible slip: an empty hooks/scripts falls through to the next location
CopyScriptsFromStructureFallThrough(t, s) ==
    LET hooks == IF s.has_hooks_dir /\ Exists(t, <<"hooks", "scripts">>)
                 THEN CopyScriptsFromDir(t, <<"hooks", "scripts">>) ELSE {}
        root == IF s.has_skills_subdir THEN <<"skills">> ELSE <<>>
    IN  IF hooks # {} THEN hooks
        ELSE IF Exists(t, root \o <<"scripts">>)
             THEN CopyScriptsFromDir(t, root \o <<"scripts">>) ELSE {}

\* base.py _copy_scripts_from_structure
CopyScriptsFromStructure(t, s) ==
    IF s.has_hooks_dir /\ Exists(t, <<"hooks", "scripts">>)
    THEN CopyScriptsFromDir(t, <<"hooks", "scripts">>)
    ELSE IF Exists(t, s.scripts_dir)
         THEN CopyScriptsFromDir(t, s.scripts_dir)
         ELSE {}

(***************************************************************************)
(* base.py _copy_directory_contents: every readable file below dir_path,   *)
(* keyed by its path relative to dir_path; {} when dir_path is absent.     *)
(***************************************************************************)
CopyDirectoryContents(t, dir_path) ==
    IF ~Exists(t, dir_path) THEN {}
    ELSE {[k |-> RelativeTo(n.p, dir_path), v |-> Text(n)] :
             n \in {f \in RGlobFiles(t, dir_path) : f.rd = "ok"}}

\* str(rel_path).startswith("templates/")
StartsWithTemplates(rel) == Len(rel) >= 2 /\ rel[1] = "templates"

\* base.py lines 289-298 and 314-323: the files of an assets directory that
\* are not below its templates/ subdirectory.  Only UnicodeDecodeError is
\* caught in this loop.
AssetsOtherFiles(t, assets_dir) ==
    {f \in RGlobFiles(t, assets_dir) : ~StartsWithTemplates(RelativeTo(f.p, assets_dir))}

CopyAssetsOther(t, assets_dir) ==
    {[k |-> RelativeTo(n.p, assets_dir), v |-> Text(n)] :
        n \in {f \in AssetsOtherFiles(t, assets_dir) : f.rd = "ok"}}

\* the loop raises PermissionError out of the collector
AssetsLoopRaises(t, assets_dir) ==
    \E f \in AssetsOtherFiles(t, assets_dir) : f.rd = "perm"

\* a plausible slip: the templates directory is merged first, the assets
\* directory over it
TemplatesPrimaryAssetsLast(t, s) ==
    LET fromAssets ==
            IF Exists(t, s.assets_dir)
            THEN Update(CopyDirectoryContents(t, s.assets_dir \o <<"templates">>),
                        CopyAssetsOther(t, s.assets_dir))
            ELSE {}
    IN  Update(CopyDirectoryContents(t, s.templates_dir), fromAssets)

\* base.py lines 281-303: the primary chain of _copy_templates_from_structure
TemplatesPrimary(t, s) ==
    LET fromAssets ==
            IF Exists(t, s.assets_dir)
            THEN Update(CopyDirectoryContents(t, s.assets_dir \o <<"templates">>),
                        CopyAssetsOther(t, s.assets_dir))
            ELSE {}
    IN  Update(fromAssets, CopyDirectoryContents(t, s.templates_dir))

\* base.py lines 305-323: the root-level fallback
TemplatesFallback(t) ==
    Update(CopyDirectoryContents(t, <<"assets", "templates">>),
           IF Exists(t, <<"assets">>) THEN CopyAssetsOther(t, <<"assets">>) ELSE {})

\* a plausible slip: the fallback is merged whatever the primary chain found
CopyTemplatesAlwaysFallback(t, s) ==
    IF (Exists(t, s.assets_dir) /\ AssetsLoopRaises(t, s.assets_dir))
          \/ AssetsLoopRaises(t, <<"assets">>)
    THEN [raised |-> TRUE, files |-> {}]
    ELSE [raised |-> FALSE, files |-> Update(TemplatesPrimary(t, s), TemplatesFallback(t))]

\* lines 305-325: the fallback runs only when nothing was found so far
TemplatesWithFallback(t, primary) ==
    IF primary # {} THEN [raised |-> FALSE, files |-> primary]
    ELSE IF AssetsLoopRaises(t, <<"assets">>) THEN [raised |-> TRUE, files |-> {}]
         ELSE [raised |-> FALSE, files |-> TemplatesFallback(t)]

\* base.py _copy_templates_from_structure
CopyTemplatesFromStructure(t, s) ==
    IF Exists(t, s.assets_dir) /\ AssetsLoopRaises(t, s.assets_dir)
    THEN [raised |-> TRUE, files |-> {}]
    ELSE TemplatesWithFallback(t, TemplatesPrimary(t, s))

\* a plausible slip: a path already collected is not overwritten by a later
\* directory (setdefault instead of update)
CopyDocsFirstWins(t, s) ==
    LET d1 == CopyDirectoryContents(t, <<"references">>)
        d2 == Update(CopyDirectoryContents(t, s.docs_dir), d1)
    IN  IF s.has_skills_subdir
        THEN Update(CopyDirectoryContents(t, <<"skills", "docs">>),
                    Update(CopyDirectoryContents(t, <<"skills", "references">>), d2))
        ELSE d2

\* base.py _copy_docs_from_structure
CopyDocsFromStructure(t, s) ==
    LET d1 == CopyDirectoryContents(t, <<"references">>)
        d2 == Update(d1, CopyDirectoryContents(t, s.docs_dir))
    IN  IF s.has_skills_subdir
        THEN Update(Update(d2, CopyDirectoryContents(t, <<"skills", "references">>)),
                    CopyDirectoryContents(t, <<"skills", "docs">>))
        ELSE d2

\* base.py transform_skill lines 166-170
CopyExamples(t, s) ==
    LET e1 == CopyDirectoryContents(t, <<"examples">>)
    IN  IF s.has_skills_subdir
        THEN Update(e1, CopyDirectoryContents(t, <<"skills", "examples">>))
        ELSE e1

\* base.py _generate_scripts_readme: the *.py files directly in the scripts
\* directory are listed by name
GenerateScriptsReadme(t, s) ==
    LET scripts_dir == IF s.has_hooks_dir THEN <<"hooks", "scripts">> ELSE s.scripts_dir
    IN  [src |-> <<"README.md">>, sub |-> FALSE,
         lists |-> IF Exists(t, scripts_dir)
                   THEN {Last(n.p) : n \in {f \in RGlobFiles(t, scripts_dir) :
                            Len(f.p) = Len(scripts_dir) + 1 /\ Suffix(Last(f.p)) = ".py"}}
                   ELSE {}]

\* base.py transform_skill lines 142-152: the instruction text
ReadSkillMd(t, s) ==
    IF ~Exists(t, s.skill_md) THEN [kind |-> "not_found", err |-> "none"]
    ELSE LET n == CHOOSE f \in t : IsPrefix(s.skill_md, f.p)
         IN  IF n.p = s.skill_md /\ n.k = "file" /\ n.rd = "ok"
             THEN [kind |-> "transformed", err |-> "none"]
             ELSE [kind |-> "read_error", err |-> n.rd]

NoOutput == [raised |-> FALSE, skill_md |-> [kind |-> "none", err |-> "none"],
             scripts |-> {}, templates |-> {}, docs |-> {}, examples |-> {},
             cli_specific |-> {}]

\* a plausible slip: a read error of the instruction file is not caught
TransformSkillWithReadErrorRaised(t, s, templates) ==
    IF templates.raised \/ ReadSkillMd(t, s).kind = "read_error"
    THEN [NoOutput EXCEPT !.raised = TRUE]
    ELSE [raised |-> FALSE,
          skill_md |-> ReadSkillMd(t, s),
          scripts |-> Update(CopyScriptsFromStructure(t, s),
                             {[k |-> <<"README.md">>, v |-> GenerateScriptsReadme(t, s)]}),
          templates |-> templates.files,
          docs |-> CopyDocsFromStructure(t, s),
          examples |-> CopyExamples(t, s),
          cli_specific |-> {}]

\* base.py transform_skill: the SkillOutput, or raised when a collector raises
TransformSkillWith(t, s, templates) ==
    IF templates.raised THEN [NoOutput EXCEPT !.raised = TRUE]
    ELSE [raised |-> FALSE,
          skill_md |-> ReadSkillMd(t, s),
          scripts |-> Update(CopyScriptsFromStructure(t, s),
                             {[k |-> <<"README.md">>, v |-> GenerateScriptsReadme(t, s)]}),
          templates |-> templates.files,
          docs |-> CopyDocsFromStructure(t, s),
          examples |-> CopyExamples(t, s),
          cli_specific |-> {}]

TransformSkillIn(t, s) == TransformSkillWith(t, s, CopyTemplatesFromStructure(t, s))

TransformSkill(t) == TransformSkillIn(t, DetectSkillStructure(t))

(***************************************************************************)
(* Source directories                                                      *)
(***************************************************************************)
Rd == {"ok", "decode", "perm"}

Dir(path) == [p |-> path, k |-> "dir", rd |-> "ok"]

File(path, r) == [p |-> path, k |-> "file", rd |-> r]

\* one node per path, and nothing below a file
WellFormed(t) ==
    \A n \in t : \A m \in t :
        /\ (n.p = m.p => n = m)
        /\ (IsProperPrefix(n.p, m.p) => n.k = "dir")

RECURSIVE TreesUpTo(_, _)
TreesUpTo(U, n) ==
    IF n = 0 THEN {{}}
    ELSE LET P == TreesUpTo(U, n - 1)
         IN  P \cup {x \in {s \cup {e} : s \in P, e \in U} : WellFormed(x)}

ScriptDirs == {<<"hooks", "scripts">>, <<"skills", "scripts">>, <<"scripts">>}

ScriptNames == {<<"run.py">>, <<"sub", "util.py">>, <<"data.json">>, <<"notes.txt">>}

\* the nodes a scripts-oriented skill directory is drawn from
ScriptsUniverse ==
    {Dir(<<"skills">>), Dir(<<"hooks">>), File(<<"SKILL.md">>, "ok"),
     File(<<"skills", "SKILL.md">>, "ok")}
    \cup {Dir(d) : d \in ScriptDirs}
    \cup {File(d \o nm, r) : d \in ScriptDirs, nm \in ScriptNames, r \in Rd}

TemplateDirs == {<<"assets">>, <<"assets", "templates">>, <<"templates">>,
                 <<"skills", "assets">>, <<"skills", "assets", "templates">>,
                 <<"skills", "templates">>}

TemplateNames == {<<"a.txt">>, <<"img", "b.txt">>}

\* the nodes a templates-oriented skill directory is drawn from
TemplatesUniverse ==
    {Dir(<<"skills">>), File(<<"skills", "SKILL.md">>, "ok")}
    \cup {Dir(d) : d \in TemplateDirs}
    \cup {File(d \o nm, r) : d \in TemplateDirs, nm \in TemplateNames, r \in Rd}

DocDirs == {<<"references">>, <<"docs">>, <<"skills", "references">>,
            <<"skills", "docs">>}

\* the nodes a docs-oriented skill directory is drawn from
DocsUniverse ==
    {Dir(<<"skills">>), File(<<"skills", "SKILL.md">>, "ok")}
    \cup {Dir(d) : d \in DocDirs}
    \cup {File(d \o nm, r) : d \in DocDirs, nm \in TemplateNames, r \in Rd}

\* the nodes of a skill directory whose instruction file may be missing or
\* unreadable, with content in every category
SkillMdUniverse ==
    {Dir(<<"skills">>), File(<<"assets", "a.txt">>, "perm")}
    \cup {File(<<"SKILL.md">>, r) : r \in Rd}
    \cup {File(<<"skills", "SKILL.md">>, r) : r \in Rd}
    \cup {File(d \o <<"a.txt">>, "ok") :
             d \in {<<"templates">>, <<"skills", "templates">>, <<"docs">>,
                    <<"skills", "docs">>, <<"examples">>}}
    \cup {File(d \o <<"run.py">>, "ok") : d \in {<<"scripts">>, <<"skills", "scripts">>}}

(***************************************************************************)
(* The transform of one skill directory                                    *)
(***************************************************************************)
NoStructure == DetectSkillStructure({})

ADAPTERS == {"opencode", "codex", "gemini", "droid", "cursor", "antigravity"}

Absent == [exists |-> FALSE, files |-> {}]

\* no text transform runs
TextIdle == content = <<>> /\ fn = "none" /\ mds = <<>>

\* the orchestrator does not run
OrchIdle ==
    /\ target_clis = <<>> /\ skills = <<>> /\ force = FALSE
    /\ fs = [t \in {} |-> Absent]
    /\ pc = "idle" /\ ci = 0 /\ si = 0
    /\ success_count = 0 /\ total_success = 0 /\ exit_code = -1
    /\ console = <<>> /\ faults = 0
    /\ is_cloned = FALSE /\ sub_dir = <<>> /\ keep_clone = FALSE
    /\ temp_dir = {} /\ cleanup = "pending"

TransformSkillStep ==
    /\ cpc = "start"
    /\ structure' = DetectSkillStructure(tree)
    /\ out' = TransformSkill(tree)
    /\ cpc' = "done"
    /\ UNCHANGED <<tree, ovars, tvars>>

\* a second transform_skill call of the same adapter on the same directory
TransformSkillAgain ==
    /\ cpc = "done"
    /\ structure' = DetectSkillStructure(tree)
    /\ out' = TransformSkill(tree)
    /\ cpc' = "again"
    /\ UNCHANGED <<tree, ovars, tvars>>

InitCollect(U) ==
    /\ tree \in TreesUpTo(U, MaxEntries)
    /\ structure = NoStructure
    /\ out = NoOutput
    /\ cpc = "start"
    /\ OrchIdle
    /\ TextIdle

InitScripts == InitCollect(ScriptsUniverse)

InitTemplates == InitCollect(TemplatesUniverse)

InitDocs == InitCollect(DocsUniverse)

InitSkillMd == InitCollect(SkillMdUniverse)

NextCollect == TransformSkillStep \/ TransformSkillAgain

SpecScripts == InitScripts /\ [][NextCollect]_vars

SpecTemplates == InitTemplates /\ [][NextCollect]_vars

SpecDocs == InitDocs /\ [][NextCollect]_vars

SpecSkillMd == InitSkillMd /\ [][NextCollect]_vars

(***************************************************************************)
(* cli.py get_available_skills and the validity check of install_skill.    *)
(* Here tree is the repository root: the first segment of a path is the    *)
(* name of an entry of the root.                                           *)
(***************************************************************************)
\* the entry names considered, in sorted() order
RootNames == <<".cache", "alpha", "beta", "tools">>

\* item.name.startswith(".")
StartsWithDot(name) == name = ".cache"

\* item.is_dir() for the entry of the root called name
IsDirAt(t, name) ==
    \E n \in t : n.p[1] = name /\ (Len(n.p) > 1 \/ n.k = "dir")

\* the directory repo_root / name as a skill source directory
SourceDir(t, name) ==
    {[p |-> Tail(n.p), k |-> n.k, rd |-> n.rd] : n \in {x \in t : Len(x.p) > 1 /\ x.p[1] = name}}

\* cli.py line 74: SKILL.md at the root of the entry or in its skills/
HasSkillMd(t, name) ==
    Exists(t, <<name, "SKILL.md">>) \/ Exists(t, <<name, "skills", "SKILL.md">>)

Listed(t, name) ==
    /\ IsDirAt(t, name) /\ ~StartsWithDot(name)
    /\ name \notin {"tools", "claude_skillxfer"}
    /\ HasSkillMd(t, name)

\* a plausible slip: only a SKILL.md at the root of the entry is looked for
GetAvailableSkillsRootOnly(t) ==
    SelectSeq(RootNames,
              LAMBDA name : /\ IsDirAt(t, name) /\ ~StartsWithDot(name)
                            /\ name \notin {"tools", "claude_skillxfer"}
                            /\ Exists(t, <<name, "SKILL.md">>))

\* cli.py get_available_skills
GetAvailableSkills(t) == SelectSeq(RootNames, LAMBDA name : Listed(t, name))

\* cli.py install_skill lines 133-145: the source directory exists and is
\* not rejected as invalid
InstallSkillAccepts(t, name) == Exists(t, <<name>>) /\ HasSkillMd(t, name)

\* the entries of a repository root
RootUniverse ==
    UNION {{Dir(<<name>>), File(<<name>>, "ok"), Dir(<<name, "skills">>),
            File(<<name, "SKILL.md">>, "ok"), File(<<name, "skills", "SKILL.md">>, "ok"),
            File(<<name, "scripts", "run.py">>, "ok")} :
           name \in {RootNames[i] : i \in DOMAIN RootNames}}

InitDiscover ==
    /\ tree \in TreesUpTo(RootUniverse, MaxEntries)
    /\ structure = NoStructure
    /\ out = NoOutput
    /\ cpc = "start"
    /\ OrchIdle
    /\ TextIdle

\* main line 468: skills = get_available_skills(repo_root)
GetAvailableSkillsStep ==
    /\ cpc = "start"
    /\ skills' = GetAvailableSkills(tree)
    /\ cpc' = "listed"
    /\ UNCHANGED <<tree, structure, out, target_clis, force, fs, pc, ci, si,
                   success_count, total_success, exit_code, console, faults, rvars, tvars>>

SpecDiscover == InitDiscover /\ [][GetAvailableSkillsStep]_vars

(***************************************************************************)
(* The repository the orchestrator installs from (repo_root).  "ghost" has *)
(* no directory; "nomd" has a directory without SKILL.md; the assets file  *)
(* of "bad" cannot be read (PermissionError); "good" and "nested" are      *)
(* valid skills in the direct and in the nested layout.                    *)
(***************************************************************************)
SkillNames == {"good", "nested", "nomd", "bad", "ghost"}

Repo ==
    [good |-> {File(<<"SKILL.md">>, "ok"), File(<<"scripts", "run.py">>, "ok"),
               File(<<"templates", "a.txt">>, "ok")},
     nested |-> {File(<<"skills", "SKILL.md">>, "ok"),
                 File(<<"skills", "docs", "a.txt">>, "ok"),
                 File(<<"examples", "e.txt">>, "ok")},
     nomd |-> {File(<<"scripts", "run.py">>, "ok")},
     bad |-> {File(<<"SKILL.md">>, "ok"), File(<<"assets", "a.txt">>, "perm")}]

\* cursor.py transform_skill line 220: f"{skill_name}.mdc"
MdcName(skill_name) ==
    CASE skill_name = "good" -> "good.mdc"
      [] skill_name = "nested" -> "nested.mdc"
      [] skill_name = "nomd" -> "nomd.mdc"
      [] skill_name = "bad" -> "bad.mdc"
      [] OTHER -> "ghost.mdc"

\* rel_path.endswith('.mdc')
EndsWithMdc(rel) == Len(rel) > 0 /\ Last(rel) \in {MdcName(n) : n \in SkillNames}

\* cursor.py transform_skill line 220: the instruction text is also filed as
\* the rule file named after the skill
CursorRename(skill_name, o) ==
    IF o.raised THEN o
    ELSE [o EXCEPT !.cli_specific =
             Update(@, {[k |-> <<MdcName(skill_name)>>, v |-> o.skill_md]})]

\* cursor.py transform_skill: the base output plus the renamed rule file
CursorTransformSkill(skill_name, t) == CursorRename(skill_name, TransformSkill(t))

\* adapter.transform_skill(source_dir)
AdapterTransformSkill(cli, skill_name, t) ==
    IF cli = "cursor" THEN CursorTransformSkill(skill_name, t) ELSE TransformSkill(t)

\* templates_dir_name / docs_dir_name of the adapters
TemplatesDirName(cli) == IF cli \in {"codex", "cursor"} THEN "assets" ELSE "templates"

DocsDirName(cli) == IF cli \in {"codex", "cursor"} THEN "references" ELSE "docs"

(***************************************************************************)
(* write_output.  The files of one output are written category by          *)
(* category (ord); inside a category the order is the dict order of the    *)
(* mapping, which follows the directory listing.  what and rel are the     *)
(* words of the OSError raised when writing the file fails.                *)
(***************************************************************************)
CategoryFiles(ord, dir, what, m) ==
    {[ord |-> ord, p |-> dir \o e.k, v |-> e.v, what |-> what, rel |-> e.k] : e \in m}

SkillMdFile(o) ==
    {[ord |-> 1, p |-> <<"SKILL.md">>, v |-> o.skill_md, what |-> "SKILL.md",
      rel |-> <<"SKILL.md">>]}

\* a plausible slip: the directory names of the adapter are not used
BaseWriteFilesDefaultNames(cli, o) ==
    SkillMdFile(o)
    \cup CategoryFiles(2, <<"scripts">>, "script", o.scripts)
    \cup CategoryFiles(3, <<"templates">>, "template", o.templates)
    \cup CategoryFiles(4, <<"docs">>, "doc", o.docs)
    \cup CategoryFiles(5, <<"examples">>, "example", o.examples)
    \cup CategoryFiles(6, <<>>, "CLI-specific file", o.cli_specific)

\* base.py CLIAdapter.write_output
BaseWriteFiles(cli, o) ==
    SkillMdFile(o)
    \cup CategoryFiles(2, <<"scripts">>, "script", o.scripts)
    \cup CategoryFiles(3, <<TemplatesDirName(cli)>>, "template", o.templates)
    \cup CategoryFiles(4, <<DocsDirName(cli)>>, "doc", o.docs)
    \cup CategoryFiles(5, <<"examples">>, "example", o.examples)
    \cup CategoryFiles(6, <<>>, "CLI-specific file", o.cli_specific)

\* a plausible slip: the rule file is written next to SKILL.md, as the base
\* write_output would do
CursorWriteFilesWithSkillMd(o) ==
    SkillMdFile(o)
    \cup CategoryFiles(1, <<>>, "MDC file", {e \in o.cli_specific : EndsWithMdc(e.k)})
    \cup CategoryFiles(2, <<"scripts">>, "script", o.scripts)
    \cup CategoryFiles(3, <<TemplatesDirName("cursor")>>, "template", o.templates)
    \cup CategoryFiles(4, <<DocsDirName("cursor")>>, "doc", o.docs)
    \cup CategoryFiles(5, <<"examples">>, "example", o.examples)

\* cursor.py CursorAdapter.write_output
CursorWriteFiles(o) ==
    CategoryFiles(1, <<>>, "MDC file", {e \in o.cli_specific : EndsWithMdc(e.k)})
    \cup CategoryFiles(2, <<"scripts">>, "script", o.scripts)
    \cup CategoryFiles(3, <<TemplatesDirName("cursor")>>, "template", o.templates)
    \cup CategoryFiles(4, <<DocsDirName("cursor")>>, "doc", o.docs)
    \cup CategoryFiles(5, <<"examples">>, "example", o.examples)

\* antigravity.py AntigravityAdapter.write_output
AntigravityWriteFiles(o) ==
    SkillMdFile(o)
    \cup CategoryFiles(2, <<"scripts">>, "script", o.scripts)
    \cup CategoryFiles(3, <<"resources", "templates">>, "template", o.templates)
    \cup CategoryFiles(4, <<"resources", "references">>, "doc", o.docs)
    \cup CategoryFiles(5, <<"examples">>, "example", o.examples)
    \cup CategoryFiles(6, <<>>, "CLI-specific file", o.cli_specific)

WriteFiles(cli, o) ==
    CASE cli = "cursor" -> CursorWriteFiles(o)
      [] cli = "antigravity" -> AntigravityWriteFiles(o)
      [] OTHER -> BaseWriteFiles(cli, o)

\* what the environment does to the writes of one write_output call: nothing,
\* or write_text of the file at path `at` raises after the files `before` of
\* the same category were written
NoFail == [at |-> <<"-">>, before |-> {}]

FailChoices(files) ==
    UNION {{[at |-> f.p, before |-> W] :
               W \in SUBSET {g.p : g \in {h \in files : h.ord = f.ord /\ h # f}}} :
           f \in files}

NoErr == [what |-> "none", rel |-> <<>>]

\* file_path.write_text over what the directory holds
Overlay(existing, written) ==
    {[p |-> f.p, v |-> f.v] : f \in written}
    \cup {e \in existing : e.p \notin {f.p : f \in written}}

\* the write of file f raises: what was written before it stays
WriteUpTo(files, target, fail, f) ==
    [ok |-> FALSE, err |-> [what |-> f.what, rel |-> f.rel],
     target |-> [exists |-> TRUE,
                 files |-> Overlay(target.files,
                              {g \in files : g.ord < f.ord \/ g.p \in fail.before})]]


\* a plausible slip: the failure is remembered, the remaining files are still
\* written, and the error is raised at the end
WriteOutputRaiseAtEnd(files, target, fail) ==
    IF fail = NoFail
    THEN [ok |-> TRUE, err |-> NoErr,
          target |-> [exists |-> TRUE, files |-> Overlay(target.files, files)]]
    ELSE [WriteUpTo(files, target, fail, CHOOSE g \in files : g.p = fail.at)
            EXCEPT !.target = [exists |-> TRUE,
                               files |-> Overlay(target.files,
                                                 {g \in files : g.p # fail.at})]]

\* write_output of the three variants: mkdir of target_dir, then the files in
\* order; the first failing write raises OSError and ends the call
WriteOutput(files, target, fail) ==
    IF fail = NoFail
    THEN [ok |-> TRUE, err |-> NoErr,
          target |-> [exists |-> TRUE, files |-> Overlay(target.files, files)]]
    ELSE WriteUpTo(files, target, fail, CHOOSE g \in files : g.p = fail.at)

(***************************************************************************)
(* cli.py install_skill: [ok, ev, err, target]                             *)
(***************************************************************************)
\* install_skill lines 133-149 for every adapter and skill name: the validity
\* check and adapter.transform_skill(source_dir)
Transformed ==
    [c \in ADAPTERS, n \in SkillNames |->
        IF n \notin DOMAIN Repo THEN [found |-> FALSE, valid |-> FALSE, o |-> NoOutput]
        ELSE [found |-> TRUE,
              valid |-> Exists(Repo[n], <<"SKILL.md">>)
                          \/ Exists(Repo[n], <<"skills", "SKILL.md">>),
              o |-> AdapterTransformSkill(c, n, Repo[n])]]

\* the files adapter.write_output is going to write for the skill
FilesOf(c, tr) == IF tr.valid /\ ~tr.o.raised THEN WriteFiles(c, tr.o) ELSE {}

OutputTable == [c \in ADAPTERS, n \in SkillNames |-> FilesOf(c, Transformed[c, n])]

OutputFiles(c, n) == OutputTable[c, n]

\* install_skill lines 133-172 given the outcome of the transform (tr) and of
\* write_output (w)
InstallSkillWith(tr, w, target) ==
    IF ~tr.found
    THEN [ok |-> FALSE, ev |-> "not_found", err |-> NoErr, target |-> target]
    ELSE IF ~tr.valid
         THEN [ok |-> FALSE, ev |-> "invalid", err |-> NoErr, target |-> target]
         ELSE IF tr.o.raised
              THEN [ok |-> FALSE, ev |-> "failed",
                    err |-> [what |-> "PermissionError", rel |-> <<>>],
                    target |-> target]
              ELSE [ok |-> w.ok,
                    ev |-> IF w.ok THEN "installed" ELSE "failed",
                    err |-> w.err, target |-> w.target]


InstallSkill(c, n, target, fail) ==
    InstallSkillWith(Transformed[c, n], WriteOutput(OutputFiles(c, n), target, fail), target)

(***************************************************************************)
(* cli.py main (lines 483-522) and install_skills                          *)
(***************************************************************************)
CliIds == ADAPTERS \cup {"unknown"}

Targets == ADAPTERS \X SkillNames

Range(q) == {q[i] : i \in DOMAIN q}

RECURSIVE SeqsUpTo(_, _)
SeqsUpTo(S, n) ==
    IF n = 0 THEN {<<>>}
    ELSE LET P == SeqsUpTo(S, n - 1)
         IN  P \cup {Append(q, x) : q \in P, x \in S}

Distinct(q) == \A i \in DOMAIN q : \A j \in DOMAIN q : q[i] = q[j] => i = j

RECURSIVE SubsetsUpTo(_, _)
SubsetsUpTo(S, n) ==
    IF n = 0 THEN {{}}
    ELSE LET P == SubsetsUpTo(S, n - 1)
         IN  P \cup {x \cup {e} : x \in P, e \in S}

\* an installation left by an earlier version of the skill
OldTree ==
    [exists |-> TRUE,
     files |-> {[p |-> <<"SKILL.md">>, v |-> [kind |-> "old", err |-> "none"]],
                [p |-> <<"stale.txt">>, v |-> [kind |-> "old", err |-> "none"]]}]

\* main line 485
TotalSkills == Len(skills) * Len(target_clis)

cli == target_clis[ci]

\* a plausible slip: the skill list is walked from its end
skillReversed == skills[Len(skills) + 1 - si]

skill == skills[si]

\* install_skills lines 216-223: target_dir, one per adapter and install name
target_dir == <<cli, skill>>

Report(ev, c, sk, err) == [ev |-> ev, cli |-> c, skill |-> sk, err |-> err]

\* what git clone leaves in the temporary directory; <<>> is the directory
CloneTree == {<<>>, <<".git">>, <<"README.md">>, <<"parent">>, <<"parent", "good">>}

\* the values of --sub-dir
SubDirs == {<<>>, <<"parent">>}

\* main line 444 after resolve_repository lines 332-338: the skills root, a
\* path in the temporary directory
cloned_repo_path == sub_dir

\* shutil.rmtree(root): root and everything below it is gone
Rmtree(paths, root) == {q \in paths : ~IsPrefix(root, q)}

\* a run on a local repository: no clone, nothing to clean up
LocalRepository ==
    /\ is_cloned = FALSE /\ sub_dir = <<>> /\ keep_clone = FALSE
    /\ temp_dir = {} /\ cleanup = "pending"

\* resolve_repository lines 296-338 for a URL: the clone is in a fresh
\* temporary directory, the skills root is the directory or sub_dir in it
ClonedRepository ==
    /\ is_cloned = TRUE /\ sub_dir \in SubDirs /\ keep_clone \in BOOLEAN
    /\ temp_dir = CloneTree /\ cleanup = "pending"

InitRun ==
    /\ tree = {} /\ structure = NoStructure /\ out = NoOutput /\ cpc = "idle"
    /\ target_clis \in {q \in SeqsUpTo(CliIds, MaxClis) : q # <<>> /\ Distinct(q)}
    /\ skills \in SeqsUpTo(SkillNames, MaxSkills) \ {<<>>}
    /\ force \in BOOLEAN
    /\ \E pre \in SubsetsUpTo((Range(target_clis) \cap ADAPTERS) \X Range(skills), MaxPre) :
          fs = [t \in Targets |-> IF t \in pre THEN OldTree ELSE Absent]
    /\ pc = "main" /\ ci = 1 /\ si = 0
    /\ success_count = 0 /\ total_success = 0 /\ exit_code = -1
    /\ console = <<>> /\ faults = 0
    /\ TextIdle

Init == InitRun /\ LocalRepository

\* runs on a repository cloned from a URL, one target each
InitClone == InitRun /\ Len(target_clis) = 1 /\ ClonedRepository

\* a plausible slip: an unknown identifier ends the whole run
InstallSkillsUnknownCliAborts ==
    /\ pc = "main" /\ ci <= Len(target_clis)
    /\ cli \notin ADAPTERS
    /\ console' = Append(console, Report("unknown_cli", cli, "-", NoErr))
    /\ exit_code' = 1
    /\ pc' = "done"
    /\ UNCHANGED <<cvars, tvars, rvars, target_clis, skills, force, fs, ci, si, success_count,
                   total_success, faults>>

\* install_skills lines 195-198 and main line 495: unknown identifier
InstallSkillsUnknownCli ==
    /\ pc = "main" /\ ci <= Len(target_clis)
    /\ cli \notin ADAPTERS
    /\ console' = Append(console, Report("unknown_cli", cli, "-", NoErr))
    /\ total_success' = total_success + 0
    /\ ci' = ci + 1
    /\ UNCHANGED <<cvars, tvars, rvars, target_clis, skills, force, fs, pc, si, success_count,
                   exit_code, faults>>

\* install_skills lines 200-213
InstallSkillsBegin ==
    /\ pc = "main" /\ ci <= Len(target_clis)
    /\ cli \in ADAPTERS
    /\ pc' = "install_skills"
    /\ si' = 1
    /\ success_count' = 0
    /\ UNCHANGED <<cvars, tvars, rvars, target_clis, skills, force, fs, ci, total_success,
                   exit_code, console, faults>>

\* a plausible slip: the conflict check is missing and the skill is installed
\* over the existing directory
SkipExistingInstallsOver ==
    /\ pc = "install_skills" /\ si <= Len(skills)
    /\ fs[target_dir].exists /\ ~force
    /\ \E r \in {InstallSkill(cli, skill, fs[target_dir], NoFail)} :
          /\ fs' = [fs EXCEPT ![target_dir] = r.target]
          /\ success_count' = IF r.ok THEN success_count + 1 ELSE success_count
          /\ console' = Append(console, Report(r.ev, cli, skill, r.err))
    /\ si' = si + 1
    /\ UNCHANGED <<cvars, tvars, rvars, target_clis, skills, force, pc, ci, total_success,
                   exit_code, faults>>

\* install_skills lines 225-227
SkipExisting ==
    /\ pc = "install_skills" /\ si <= Len(skills)
    /\ fs[target_dir].exists /\ ~force
    /\ console' = Append(console, Report("skipped", cli, skill, NoErr))
    /\ si' = si + 1
    /\ UNCHANGED <<cvars, tvars, rvars, target_clis, skills, force, fs, pc, ci, success_count,
                   total_success, exit_code, faults>>

\* install_skills lines 229-230: shutil.rmtree raises; nothing catches it in
\* install_skills or main, so the process ends with a traceback (status 1)
RmtreeRaises ==
    /\ pc = "install_skills" /\ si <= Len(skills)
    /\ fs[target_dir].exists /\ force
    /\ faults < MaxFaults
    /\ faults' = faults + 1
    /\ pc' = "crashed"
    /\ exit_code' = 1
    /\ UNCHANGED <<cvars, tvars, rvars, target_clis, skills, force, fs, ci, si, success_count,
                   total_success, console>>

\* install_skills lines 229-233: rmtree when the directory exists and force is
\* set, then install_skill
InstallOne ==
    /\ pc = "install_skills" /\ si <= Len(skills)
    /\ ~fs[target_dir].exists \/ force
    /\ \E fail \in {NoFail} \cup (IF faults < MaxFaults
                                  THEN FailChoices(OutputFiles(cli, skill)) ELSE {}) :
          \E r \in {InstallSkill(cli, skill, Absent, fail)} :
              /\ fs' = [fs EXCEPT ![target_dir] = r.target]
              /\ success_count' = IF r.ok THEN success_count + 1 ELSE success_count
              /\ console' = Append(console, Report(r.ev, cli, skill, r.err))
              /\ faults' = IF fail = NoFail THEN faults ELSE faults + 1
    /\ si' = si + 1
    /\ UNCHANGED <<cvars, tvars, rvars, target_clis, skills, force, pc, ci, total_success, exit_code>>

\* a plausible slip: the count of the last target replaces the total
InstallSkillsReturnAssigns ==
    /\ pc = "install_skills" /\ si > Len(skills)
    /\ total_success' = success_count
    /\ ci' = ci + 1
    /\ pc' = "main"
    /\ UNCHANGED <<cvars, tvars, rvars, target_clis, skills, force, fs, si, success_count,
                   exit_code, console, faults>>

\* install_skills line 235 and main line 495
InstallSkillsReturn ==
    /\ pc = "install_skills" /\ si > Len(skills)
    /\ total_success' = total_success + success_count
    /\ ci' = ci + 1
    /\ pc' = "main"
    /\ UNCHANGED <<cvars, tvars, rvars, target_clis, skills, force, fs, si, success_count,
                   exit_code, console, faults>>

\* main lines 497-522
Summary ==
    /\ pc = "main" /\ ci > Len(target_clis)
    /\ exit_code' = IF total_success > 0 THEN 0 ELSE 1
    /\ \/ ~is_cloned /\ cleanup' = "none" /\ UNCHANGED temp_dir
       \/ is_cloned /\ keep_clone /\ cleanup' = "kept" /\ UNCHANGED temp_dir
       \/ /\ is_cloned /\ ~keep_clone
          /\ \/ cleanup' = "removed" /\ temp_dir' = Rmtree(temp_dir, cloned_repo_path)
             \/ cleanup' = "failed" /\ UNCHANGED temp_dir
    /\ pc' = "done"
    /\ UNCHANGED <<cvars, tvars, target_clis, skills, force, fs, ci, si, success_count,
                   total_success, console, faults, is_cloned, sub_dir, keep_clone>>

Next ==
    \/ InstallSkillsUnknownCli
    \/ InstallSkillsBegin
    \/ SkipExisting
    \/ RmtreeRaises
    \/ InstallOne
    \/ InstallSkillsReturn
    \/ Summary

Spec == Init /\ [][Next]_vars

SpecClone == InitClone /\ [][Next]_vars

(***************************************************************************)
(* Instruction documents.  A text is a sequence of tokens.  A token is a   *)
(* piece of text that the patterns of the transforms match as a whole or   *)
(* not at all: every literal of a pattern is one token, and no token or    *)
(* run of tokens contains such a literal in another way.                   *)
(***************************************************************************)
PRE == "Skill(skill="

Q == "\""

ARGS == ", args="

RP == ")"

ROOT == "${CLAUDE_PLUGIN_ROOT}"

NL == "\n"

SP == " "

AT == "@"

\* "\n\n---\n\n", the rule that opens every appended section
SEP == <<NL, NL, "---", NL, NL>>

\* str.replace(old, new) for a pattern that is one token
Replace(text, old, new) ==
    [i \in DOMAIN text |-> IF text[i] = old THEN new ELSE text[i]]

\* index of the first tok at or after from, 0 when there is none
FirstFrom(text, from, tok) ==
    IF \E j \in from..Len(text) : text[j] = tok
    THEN CHOOSE j \in from..Len(text) :
            text[j] = tok /\ \A k \in from..(j - 1) : text[k] # tok
    ELSE 0

NoMatch == [ok |-> FALSE, name |-> <<>>, args |-> <<>>, end |-> 0]

\* the closing part of the directive pattern after the name, whose closing
\* quote is at j: the right parenthesis, or the args group (its closing
\* quote at k) and the right parenthesis
DirectiveTail(text, i, j, k) ==
    IF j + 1 <= Len(text) /\ text[j + 1] = RP
    THEN [ok |-> TRUE, name |-> SubSeq(text, i + 2, j - 1), args |-> <<>>, end |-> j + 1]
    ELSE IF k > 0 /\ k + 1 <= Len(text) /\ text[k + 1] = RP
         THEN [ok |-> TRUE, name |-> SubSeq(text, i + 2, j - 1),
               args |-> SubSeq(text, j + 3, k - 1), end |-> k + 1]
         ELSE NoMatch

DirectiveName(text, i, j) ==
    IF j <= i + 2 THEN NoMatch
    ELSE DirectiveTail(text, i, j,
            IF j + 2 <= Len(text) /\ text[j + 1] = ARGS /\ text[j + 2] = Q
            THEN FirstFrom(text, j + 3, Q) ELSE 0)

\* base.py line 493: a match of the directive pattern that starts at index
\* i: PRE, a quoted non-empty name without quotes, optionally ARGS and
\* quoted args without quotes, RP
DirectiveAt(text, i) ==
    IF i + 1 <= Len(text) /\ text[i] = PRE /\ text[i + 1] = Q
    THEN DirectiveName(text, i, FirstFrom(text, i + 2, Q))
    ELSE NoMatch

\* base.py lines 492-496: re.sub replaces the matches found from left to
\* right by @\1 \2 and goes on after each match
RECURSIVE SubFrom(_, _)
SubMatch(text, i, m) ==
    IF m.ok
    THEN <<AT>> \o m.name \o <<SP>> \o m.args \o SubFrom(text, m.end + 1)
    ELSE <<text[i]>> \o SubFrom(text, i + 1)

SubFrom(text, i) ==
    IF i > Len(text) THEN <<>> ELSE SubMatch(text, i, DirectiveAt(text, i))

\* base.py _common_skill_md_transforms
CommonSkillMdTransforms(text) == SubFrom(Replace(text, ROOT, "."), 1)

(***************************************************************************)
(* transform_skill_md of the append-style targets                          *)
(***************************************************************************)
Heading(c) ==
    CASE c = "opencode" -> "## OpenCode CLI Usage"
      [] c = "codex" -> "## Codex CLI Usage"
      [] c = "gemini" -> "## Gemini CLI Usage"
      [] c = "droid" -> "## Droid CLI Usage"
      [] c = "antigravity" -> "## Antigravity"
      [] OTHER -> "## Cursor Integration Notes"

\* the text of the section after its heading; only the Codex section holds
\* text the transforms look for.  In tokens a backquote is written as '.
SectionBody(c) ==
    IF c = "codex"
    THEN <<"<codex usage>", "- '", "assets/", "' - Code templates (called '",
           "templates/", "' in Claude Code)", NL, "- '", "references/",
           "' - Documentation (called '", "docs/", "' in Claude Code)",
           "<codex usage end>">>
    ELSE <<"<usage>">>

Section(c) == SEP \o <<Heading(c)>> \o SectionBody(c)

\* codex.py lines 67-71
CodexRenames(text) ==
    Replace(Replace(Replace(Replace(text, "templates/", "assets/"),
                            "docs/", "references/"),
                    "'templates'", "'assets'"),
            "'docs'", "'references'")

HasToken(text, tok) == \E i \in DOMAIN text : text[i] = tok

\* "Only add if not already present"
AppendSection(c, text) ==
    IF HasToken(text, Heading(c)) THEN text ELSE text \o Section(c)

\* opencode.py 52-91, codex.py 55-107, gemini.py, droid.py, antigravity.py
\* 36-49: transform_skill_md
AppendStyleTransformSkillMd(c, text) ==
    AppendSection(c, IF c = "codex" THEN CodexRenames(CommonSkillMdTransforms(text))
                     ELSE CommonSkillMdTransforms(text))

(***************************************************************************)
(* cursor.py: the metadata header of an instruction document               *)
(***************************************************************************)
\* the tokens \s matches
IsSpace(tok) == tok \in {SP, NL}

\* the tokens whose first character \w does not match
NonWordStart ==
    {SP, NL, Q, RP, ROOT, AT, ".", "---", "#", "- ", "[", "]", ", ", "'",
     "**/*", "**/*.py", "**/*.ts", "<usage>", "<codex usage>", "<codex usage end>",
     "- '", "' - Code templates (called '", "' in Claude Code)",
     "' - Documentation (called '", "<cursor notes>"}
    \cup {Heading(c) : c \in ADAPTERS}

WordStart(tok) == tok \notin NonWordStart

Max(S) == CHOOSE x \in S : \A y \in S : y <= x

Min(S) == CHOOSE x \in S : \A y \in S : x <= y

\* the last index of the whitespace run that follows index i (i when none)
RECURSIVE SpaceRunEnd(_, _)
SpaceRunEnd(text, i) ==
    IF i + 1 <= Len(text) /\ IsSpace(text[i + 1]) THEN SpaceRunEnd(text, i + 1) ELSE i

\* the indices e at or after from where a newline is followed by ---
Closings(text, from) ==
    {e \in from..(Len(text) - 1) : text[e] = NL /\ text[e + 1] = "---"}

\* the newlines p of the whitespace after the opening --- that the pattern
\* can take as the end of the opening line
Openings(text) ==
    IF Len(text) >= 1 /\ text[1] = "---"
    THEN {p \in 2..SpaceRunEnd(text, 1) : text[p] = NL /\ Closings(text, p + 1) # {}}
    ELSE {}

\* cursor.py lines 120-126 and 148-154: group 1 of the front-matter pattern
\* (an opening --- line, the shortest text up to a newline followed by ---);
\* \s* is greedy, so the last possible newline ends the opening line
Frontmatter(text) ==
    IF Openings(text) = {} THEN [ok |-> FALSE, fm |-> <<>>]
    ELSE [ok |-> TRUE,
          fm |-> SubSeq(text, Max(Openings(text)) + 1,
                        Min(Closings(text, Max(Openings(text)) + 1)) - 1)]

\* ' '.join(s.split())
RECURSIVE NormFrom(_, _, _)
NormFrom(s, i, started) ==
    IF i > Len(s) THEN <<>>
    ELSE IF IsSpace(s[i]) THEN NormFrom(s, i + 1, started)
         ELSE (IF started /\ IsSpace(s[i - 1]) THEN <<SP>> ELSE <<>>)
              \o <<s[i]>> \o NormFrom(s, i + 1, TRUE)

\* s.strip()
Strip(s) ==
    IF \A i \in DOMAIN s : IsSpace(s[i]) THEN <<>>
    ELSE SubSeq(s, Min({i \in DOMAIN s : ~IsSpace(s[i])}),
                   Max({i \in DOMAIN s : ~IsSpace(s[i])}))

\* the alternatives that end a value: newline and a word character, newline
\* and ---, or two newlines
Term(fm, x) ==
    /\ x + 1 <= Len(fm) /\ fm[x] = NL
    /\ (WordStart(fm[x + 1]) \/ fm[x + 1] = "---" \/ fm[x + 1] = NL)

\* the ends e of a description value that starts at s
DescEnds(fm, s) == {e \in s..Len(fm) : Term(fm, e + 1)}

\* the starts of the value after the key at i: after the whitespace that
\* follows the key, or inside it when nothing else matches
DescStarts(fm, i) ==
    {s \in (i + 1)..(SpaceRunEnd(fm, i) + 1) : s <= Len(fm) /\ DescEnds(fm, s) # {}}

\* cursor.py lines 127-136: the first description key whose value the
\* pattern can match; the value is the shortest text up to a terminator
DescriptionKeys(fm) ==
    {i \in DOMAIN fm : fm[i] = "description:" /\ DescStarts(fm, i) # {}}

DescriptionValue(fm, s) == NormFrom(SubSeq(fm, s, Min(DescEnds(fm, s))), 1, FALSE)

DescriptionOf(fm) ==
    DescriptionValue(fm, Max(DescStarts(fm, Min(DescriptionKeys(fm)))))

\* cursor.py lines 139-141: a line that starts with # and whitespace: the
\* rest of the line after the whitespace, or only blanks when nothing else
\* is left
LineStart(text, i) == i = 1 \/ text[i - 1] = NL

EndOfLine(text, i) ==
    IF FirstFrom(text, i, NL) = 0 THEN Len(text) ELSE FirstFrom(text, i, NL) - 1

HeadingMatches(text, i) ==
    /\ text[i] = "#" /\ LineStart(text, i)
    /\ i < Len(text) /\ IsSpace(text[i + 1])
    /\ \/ SpaceRunEnd(text, i) < Len(text)
       \/ \E x \in (i + 2)..SpaceRunEnd(text, i) : text[x] = SP

HeadingLines(text) == {i \in DOMAIN text : HeadingMatches(text, i)}

HeadingText(text, i) ==
    IF SpaceRunEnd(text, i) < Len(text)
    THEN Strip(SubSeq(text, SpaceRunEnd(text, i) + 1,
                      EndOfLine(text, SpaceRunEnd(text, i) + 1)))
    ELSE <<>>

\* cursor.py _extract_description (the cut at 200 characters is not reached
\* by the documents considered)
ExtractDescription(text) ==
    IF Frontmatter(text).ok /\ DescriptionKeys(Frontmatter(text).fm) # {}
    THEN DescriptionOf(Frontmatter(text).fm)
    ELSE IF HeadingLines(text) # {} THEN HeadingText(text, Min(HeadingLines(text)))
         ELSE <<"Claude skill">>

(***************************************************************************)
(* cursor.py _get_skill_globs: the array it returns as a JSON string is a  *)
(* sequence of patterns, each pattern a text.                              *)
(***************************************************************************)
IsQuote(tok) == tok \in {Q, "'"}

DefaultGlobs == << <<"**/*">> >>

\* the first globs key that has text after it
GlobKeys(fm) == {i \in DOMAIN fm : fm[i] = "globs:" /\ i < Len(fm)}

\* the value starts after the whitespace that follows the key (on its last
\* character when nothing else is left)
GlobStart(fm, i) ==
    IF SpaceRunEnd(fm, i) < Len(fm) THEN SpaceRunEnd(fm, i) + 1 ELSE Len(fm)

\* and is the shortest text up to a terminator or the end of the header
GlobEnds(fm, s) ==
    {e \in s..Len(fm) :
        e = Len(fm) \/ (e = Len(fm) - 1 /\ fm[Len(fm)] = NL) \/ Term(fm, e + 1)}

\* cursor.py lines 156-162
GlobsStr(fm) ==
    Strip(SubSeq(fm, GlobStart(fm, Min(GlobKeys(fm))),
                 Min(GlobEnds(fm, GlobStart(fm, Min(GlobKeys(fm)))))))

\* the last index of the run of tokens without a quote that starts at i
\* (i - 1 when the run is empty)
RECURSIVE PlainRunEnd(_, _)
PlainRunEnd(g, i) ==
    IF i <= Len(g) /\ ~IsQuote(g[i]) THEN PlainRunEnd(g, i + 1) ELSE i - 1

AfterQuote(g, i) == IF i <= Len(g) /\ IsQuote(g[i]) THEN i + 1 ELSE i

\* cursor.py line 165: re.findall of a dash, whitespace, an optional quote,
\* a run without quotes (group 1) and an optional quote.  The dash is the
\* list marker "- "; x is the index after the whitespace and the optional
\* opening quote, w the last index of the whitespace.
RECURSIVE FindAllItems(_, _)
FindItem(g, a, w, x) ==
    IF PlainRunEnd(g, x) >= x
    THEN <<SubSeq(g, x, PlainRunEnd(g, x))>>
         \o FindAllItems(g, AfterQuote(g, PlainRunEnd(g, x) + 1))
    ELSE <<(IF w > a THEN <<g[w]>> ELSE <<SP>>)>>
         \o FindAllItems(g, AfterQuote(g, w + 1))

FindAllItems(g, i) ==
    IF FirstFrom(g, i, "- ") = 0 THEN <<>>
    ELSE FindItem(g, FirstFrom(g, i, "- "),
                  SpaceRunEnd(g, FirstFrom(g, i, "- ")),
                  AfterQuote(g, SpaceRunEnd(g, FirstFrom(g, i, "- ")) + 1))

\* the first index at or after i that holds no whitespace
Skip(g, i) == SpaceRunEnd(g, i - 1) + 1

NoJson == [ok |-> FALSE, items |-> <<>>]

\* json.loads of an array of strings: the strings from index i on, up to
\* the closing bracket at the end of the text
RECURSIVE JsonStrings(_, _)
JsonNext(g, item, n) ==
    IF n > Len(g) THEN NoJson
    ELSE IF g[n] = "]"
         THEN (IF Skip(g, n + 1) > Len(g) THEN [ok |-> TRUE, items |-> <<item>>]
               ELSE NoJson)
         ELSE IF g[n] = ", "
              THEN [ok |-> JsonStrings(g, Skip(g, n + 1)).ok,
                    items |-> <<item>> \o JsonStrings(g, Skip(g, n + 1)).items]
              ELSE NoJson

JsonStrings(g, i) ==
    IF i <= Len(g) /\ g[i] = Q /\ FirstFrom(g, i + 1, Q) > 0
    THEN JsonNext(g, SubSeq(g, i + 1, FirstFrom(g, i + 1, Q) - 1),
                  Skip(g, FirstFrom(g, i + 1, Q) + 1))
    ELSE NoJson

JsonArray(g) ==
    IF g # <<>> /\ g[1] = "["
    THEN (IF Skip(g, 2) <= Len(g) /\ g[Skip(g, 2)] = "]"
          THEN (IF Skip(g, Skip(g, 2) + 1) > Len(g)
                THEN [ok |-> TRUE, items |-> <<>>] ELSE NoJson)
          ELSE JsonStrings(g, Skip(g, 2)))
    ELSE NoJson

\* s.strip of both kinds of quote
StripQuotes(g) ==
    IF \A i \in DOMAIN g : IsQuote(g[i]) THEN <<>>
    ELSE SubSeq(g, Min({i \in DOMAIN g : ~IsQuote(g[i])}),
                   Max({i \in DOMAIN g : ~IsQuote(g[i])}))

JsonOrDefault(g) == IF JsonArray(g).ok THEN JsonArray(g).items ELSE DefaultGlobs

\* cursor.py lines 163-193
ParseGlobs(g) ==
    IF g = <<>> THEN DefaultGlobs
    ELSE IF g[1] = "- "
         THEN (IF FindAllItems(g, 1) # <<>> THEN FindAllItems(g, 1) ELSE DefaultGlobs)
         ELSE IF g[1] = "["
              THEN (IF JsonArray(g).ok THEN JsonArray(g).items
                    ELSE JsonOrDefault(StripQuotes(g)))
              ELSE IF (g[1] = "'" /\ g[Len(g)] = "'") \/ (g[1] = Q /\ g[Len(g)] = Q)
                   THEN JsonOrDefault(StripQuotes(g))
                   ELSE DefaultGlobs

\* cursor.py _get_skill_globs
GetSkillGlobs(text) ==
    IF Frontmatter(text).ok /\ GlobKeys(Frontmatter(text).fm) # {}
    THEN ParseGlobs(GlobsStr(Frontmatter(text).fm))
    ELSE DefaultGlobs

\* ", ".join(glob_list)
RECURSIVE Join(_)
Join(items) ==
    IF items = <<>> THEN <<>>
    ELSE IF Len(items) = 1 THEN items[1]
         ELSE items[1] \o <<", ">> \o Join(Tail(items))

\* cursor.py lines 78-83
GlobsForMdc(items) == IF items = <<>> THEN <<"**/*">> ELSE Join(items)

(***************************************************************************)
(* cursor.py _strip_yaml_frontmatter and transform_skill_md                *)
(***************************************************************************)
\* the newlines that can end the closing --- line at e + 1
ClosingLineEnds(text, e) ==
    {q \in (e + 2)..SpaceRunEnd(text, e + 1) : text[q] = NL}

StripClosings(text, from) ==
    {e \in Closings(text, from) : ClosingLineEnds(text, e) # {}}

StripOpenings(text) ==
    IF Len(text) >= 1 /\ text[1] = "---"
    THEN {p \in 2..SpaceRunEnd(text, 1) : text[p] = NL /\ StripClosings(text, p + 1) # {}}
    ELSE {}

\* cursor.py lines 198-205: the header pattern anchored at the start of the
\* text: opening --- line, shortest text up to a closing --- line, which
\* ends at the last newline of the whitespace after it
StripYamlFrontmatter(text) ==
    IF StripOpenings(text) = {} THEN text
    ELSE SubSeq(text,
                Max(ClosingLineEnds(text,
                        Min(StripClosings(text, Max(StripOpenings(text)) + 1)))) + 1,
                Len(text))

\* the new header and the integration note of cursor.py lines 86-113
MdcHeader(description, globs) ==
    <<"---", NL, "description:", SP>> \o description \o <<NL, "globs:", SP>>
    \o globs \o <<NL, "alwaysApply: false", NL, "---", NL, NL>>

\* cursor.py CursorAdapter.transform_skill_md
CursorTransformSkillMd(text) ==
    MdcHeader(ExtractDescription(text), GlobsForMdc(GetSkillGlobs(text)))
    \o StripYamlFrontmatter(CommonSkillMdTransforms(text))
    \o Section("cursor")

\* transform_skill_md of the adapter registered for c
TransformSkillMd(c, text) ==
    IF c = "cursor" THEN CursorTransformSkillMd(text)
    ELSE AppendStyleTransformSkillMd(c, text)

\* the transform the text specifications apply
ApplyFn(f, text) ==
    IF f = "common" THEN CommonSkillMdTransforms(text) ELSE TransformSkillMd(f, text)

(***************************************************************************)
(* The text transforms applied to bounded documents                        *)
(***************************************************************************)
\* the texts made of up to n of the fragments F
RECURSIVE DocsUpTo(_, _)
DocsUpTo(F, n) ==
    IF n = 0 THEN {<<>>}
    ELSE DocsUpTo(F, n - 1) \cup {d \o f : d \in DocsUpTo(F, n - 1), f \in F}

\* pieces of directives, the placeholder, a directory reference, a heading
\* marker, and the heading of the section the target f appends
MdFragments(f) ==
    {<<PRE, Q>>, <<Q, RP>>, <<"lint">>, <<Q, ARGS, Q>>, <<ROOT>>, <<"templates/">>,
     <<"#", SP>>, <<Heading(f)>>}

\* the lines of a document with a metadata header
HeaderLines ==
    {<<"---", NL>>, <<"description:", SP, "Formats code", NL>>, <<"name: fmt", NL>>,
     <<"globs:", SP, "[", Q, "**/*.py", Q, "]", NL>>, <<"Body", NL>>,
     <<"#", SP, "Title", NL>>, <<NL>>}

\* the lines of a metadata header that give the globs
GlobLines ==
    {<<"name: fmt", NL>>, <<"globs:", NL>>,
     <<SP, SP, "- ", Q, "**/*.py", Q, NL>>, <<SP, SP, "- ", "**/*.ts", NL>>,
     <<"globs:", SP, "[", Q, "**/*.py", Q, ", ", Q, "**/*.ts", Q, "]", NL>>,
     <<"globs:", SP, "'", "[", Q, "**/*.py", Q, "]", "'", NL>>,
     <<"globs:", SP, "**/*.py", NL>>, <<"globs:", SP, "[", "**/*.py", "]", NL>>}

\* a header of up to MaxGlobLines lines and a body
GlobDocs ==
    {<<"---", NL>> \o d \o <<"---", NL, "Body", NL>> : d \in DocsUpTo(GlobLines, MaxGlobLines)}

\* the collector does not run
CollectIdle == tree = {} /\ structure = NoStructure /\ out = NoOutput /\ cpc = "idle"

MdFns == {"common"} \cup ADAPTERS

InitMd ==
    /\ fn \in MdFns
    /\ content \in DocsUpTo(MdFragments(fn), MaxParts)
    /\ mds = <<>>
    /\ CollectIdle /\ OrchIdle

InitHeader ==
    /\ fn = "cursor"
    /\ content \in DocsUpTo(HeaderLines, MaxLines)
    /\ mds = <<>>
    /\ CollectIdle /\ OrchIdle

InitGlobs ==
    /\ fn \in {"globs", "cursor"}
    /\ content \in GlobDocs
    /\ mds = <<>>
    /\ CollectIdle /\ OrchIdle

\* the transform is applied to the document
TransformSkillMdStep ==
    /\ fn # "none" /\ mds = <<>>
    /\ mds' = <<IF fn = "globs" THEN GetSkillGlobs(content) ELSE ApplyFn(fn, content)>>
    /\ UNCHANGED <<content, fn, cvars, ovars>>

\* the transform is applied to its own result
TransformSkillMdAgain ==
    /\ fn \in MdFns /\ Len(mds) = 1
    /\ mds' = Append(mds, ApplyFn(fn, mds[1]))
    /\ UNCHANGED <<content, fn, cvars, ovars>>

NextText == TransformSkillMdStep \/ TransformSkillMdAgain

SpecMd == InitMd /\ [][NextText]_vars

SpecHeader == InitHeader /\ [][NextText]_vars

SpecGlobs == InitGlobs /\ [][NextText]_vars

(***************************************************************************)
(* Properties of the collector                                             *)
(***************************************************************************)

\* C1: apart from the synthesized README.md, the scripts mapping holds the
\* readable *.py and *.json files of exactly one location: hooks/scripts if
\* it exists, else skills/scripts in the nested layout, else scripts; never
\* a file of a lower-priority location, also when the winning one is empty.
C1_ScriptsFromOneLocation ==
    (cpc = "done" /\ ~out.raised) =>
        LET win == IF Exists(tree, <<"hooks", "scripts">>) THEN <<"hooks", "scripts">>
                   ELSE IF Exists(tree, <<"skills", "SKILL.md">>) THEN <<"skills", "scripts">>
                   ELSE <<"scripts">>
            got == {e \in out.scripts : e.k # <<"README.md">>}
        IN  /\ \A e \in got : IsProperPrefix(win, e.v.src) /\ e.k = RelativeTo(e.v.src, win)
            /\ \A n \in tree :
                  (/\ n.k = "file" /\ n.rd = "ok"
                   /\ IsProperPrefix(win, n.p)
                   /\ Suffix(Last(n.p)) \in {".py", ".json"})
                  => \E e \in got : e.v.src = n.p

\* C1 witness: hooks/scripts exists without any script file, the root scripts
\* directory holds a readable script, and the mapping holds the README only
C1_Witness ==
    /\ cpc = "done"
    /\ Exists(tree, <<"hooks", "scripts">>)
    /\ RGlobFiles(tree, <<"hooks", "scripts">>) = {}
    /\ File(<<"scripts", "run.py">>, "ok") \in tree
    /\ Keys(out.scripts) = {<<"README.md">>}

\* C2: the instruction file resolves to skills/SKILL.md exactly when skills/
\* holds SKILL.md (also beside a root SKILL.md), else to SKILL.md; templates,
\* docs and assets resolve under the same content root; hooks/scripts, when
\* it exists, is the scripts location in the nested and in the direct case.
C2_DetectResolvesLayout ==
    cpc = "done" =>
        LET nested == \E n \in tree : IsPrefix(<<"skills", "SKILL.md">>, n.p)
            root == IF nested THEN <<"skills">> ELSE <<>>
            hooks == \E n \in tree : IsPrefix(<<"hooks", "scripts">>, n.p)
        IN  /\ structure.skill_md = root \o <<"SKILL.md">>
            /\ structure.has_skills_subdir = nested
            /\ structure.templates_dir = root \o <<"templates">>
            /\ structure.docs_dir = root \o <<"docs">>
            /\ structure.assets_dir = root \o <<"assets">>
            /\ hooks => structure.scripts_dir = <<"hooks", "scripts">>
            /\ ~hooks => structure.scripts_dir = root \o <<"scripts">>

\* C2 witness: root and nested SKILL.md both exist beside hooks/scripts
C2_Witness ==
    /\ cpc = "done"
    /\ File(<<"SKILL.md">>, "ok") \in tree
    /\ File(<<"skills", "SKILL.md">>, "ok") \in tree
    /\ Exists(tree, <<"hooks", "scripts">>)
    /\ structure.skill_md = <<"skills", "SKILL.md">>
    /\ structure.scripts_dir = <<"hooks", "scripts">>

\* C7 (as claimed): a read failure of any content file, decoding or
\* permission, drops only that file: transform_skill completes and returns
\* every readable file of the resolved templates directory.
C7_ReadFailureDropsOnlyThatFile ==
    cpc = "done" =>
        /\ ~out.raised
        /\ \A n \in RGlobFiles(tree, structure.templates_dir) :
              n.rd = "ok" => \E e \in out.templates : e.v.src = n.p

\* C10: the primary chain (resolved assets directory, resolved templates
\* directory) is always merged, and the root-level assets directory
\* contributes exactly when the primary chain yielded no entry.
C10_FallbackOnlyWhenPrimaryEmpty ==
    (cpc = "done" /\ ~out.raised) =>
        LET root == IF Exists(tree, <<"skills", "SKILL.md">>) THEN <<"skills">> ELSE <<>>
            readable(dir) == {n \in RGlobFiles(tree, dir) : n.rd = "ok"}
            primary == readable(root \o <<"assets">>) \cup readable(root \o <<"templates">>)
            legacy == readable(<<"assets">>)
            key(n, r) == IF IsProperPrefix(r \o <<"assets", "templates">>, n.p)
                         THEN RelativeTo(n.p, r \o <<"assets", "templates">>)
                         ELSE IF IsProperPrefix(r \o <<"assets">>, n.p)
                              THEN RelativeTo(n.p, r \o <<"assets">>)
                              ELSE RelativeTo(n.p, r \o <<"templates">>)
            srcs == {e.v.src : e \in out.templates}
        IN  /\ primary # {} =>
                  /\ srcs \subseteq {n.p : n \in primary}
                  /\ Keys(out.templates) = {key(n, root) : n \in primary}
            /\ primary = {} =>
                  /\ srcs \subseteq {n.p : n \in legacy}
                  /\ Keys(out.templates) = {key(n, <<>>) : n \in legacy}

\* C10 witness: nested layout without nested templates and with a populated
\* root-level assets directory: the root-level content is returned
C10_Witness ==
    /\ cpc = "done"
    /\ structure.has_skills_subdir
    /\ Exists(tree, <<"skills", "templates">>)
    /\ File(<<"assets", "a.txt">>, "ok") \in tree
    /\ out.templates = {[k |-> <<"a.txt">>, v |-> Text(File(<<"assets", "a.txt">>, "ok"))]}

\* the sources of the templates in the order they are merged: the
\* templates/ subdirectory of the assets directory, the other files of the
\* assets directory, the templates directory
TemplateSources(assets_dir, templates_dir) ==
    <<[dir |-> assets_dir \o <<"templates">>, other |-> FALSE],
      [dir |-> assets_dir, other |-> TRUE],
      [dir |-> templates_dir, other |-> FALSE]>>

\* the source src provides a readable file for the relative path rel
Provides(t, src, rel) ==
    /\ File(src.dir \o rel, "ok") \in t
    /\ src.other => ~StartsWithTemplates(rel)

Providers(t, q, rel) == {i \in DOMAIN q : Provides(t, q[i], rel)}

\* the entry e holds the content of the last source of q that provides a
\* file for its path
KeepsLastOf(t, q, e) ==
    /\ Providers(t, q, e.k) # {}
    /\ e.v.src = q[Max(Providers(t, q, e.k))].dir \o e.k

\* C30: every entry of the templates mapping holds the content of the last
\* source that provides a file for its relative path, in the order
\* assets/templates/, other files of the assets directory, resolved
\* templates directory (for the root-level assets directory, used when
\* these gave nothing: assets/templates/, then its other files).
C30_LastTemplateSourceWins ==
    (cpc = "done" /\ ~out.raised) =>
        \A e \in out.templates :
            IF TemplatesPrimary(tree, structure) # {}
            THEN KeepsLastOf(tree, TemplateSources(structure.assets_dir,
                                                   structure.templates_dir), e)
            ELSE KeepsLastOf(tree, SubSeq(TemplateSources(<<"assets">>, <<>>), 1, 2), e)

\* C30 witness: all three sources hold a readable a.txt and the one of the
\* templates directory is kept
C30_Witness ==
    /\ cpc = "done" /\ ~out.raised
    /\ {File(<<"assets", "templates", "a.txt">>, "ok"), File(<<"assets", "a.txt">>, "ok"),
        File(<<"templates", "a.txt">>, "ok")} \subseteq tree
    /\ out.templates = {[k |-> <<"a.txt">>, v |-> Text(File(<<"templates", "a.txt">>, "ok"))]}

\* the directories the docs are gathered from, in the order they are merged
DocsOrder ==
    IF Exists(tree, <<"skills", "SKILL.md">>)
    THEN <<(<<"references">>), (<<"skills", "docs">>), (<<"skills", "references">>),
           (<<"skills", "docs">>)>>
    ELSE <<(<<"references">>), (<<"docs">>)>>

ReadableAt(d, k) == \E n \in tree : n.p = d \o k /\ n.k = "file" /\ n.rd = "ok"

\* C11: the docs mapping is the union of the readable files of the root-level
\* references directory, the resolved docs directory and, in the nested
\* layout, skills/references and skills/docs; every relative path occurs
\* once, with the content of the last directory in that order that has it.
C11_DocsAreUnionLaterWins ==
    cpc = "done" =>
        /\ \A e \in out.docs : \A g \in out.docs : e.k = g.k => e = g
        /\ \A i \in DOMAIN DocsOrder : \A n \in tree :
              (n.k = "file" /\ n.rd = "ok" /\ IsProperPrefix(DocsOrder[i], n.p))
              => RelativeTo(n.p, DocsOrder[i]) \in Keys(out.docs)
        /\ \A e \in out.docs :
              \E i \in DOMAIN DocsOrder :
                  /\ ReadableAt(DocsOrder[i], e.k)
                  /\ e.v = [src |-> DocsOrder[i] \o e.k, sub |-> FALSE, lists |-> {}]
                  /\ \A j \in DOMAIN DocsOrder : j > i => ~ReadableAt(DocsOrder[j], e.k)

\* C11 witness: nested layout, a.txt in skills/references and in skills/docs:
\* the one of skills/docs is kept
C11_Witness ==
    /\ cpc = "done"
    /\ structure.has_skills_subdir
    /\ ReadableAt(<<"skills", "references">>, <<"a.txt">>)
    /\ ReadableAt(<<"skills", "docs">>, <<"a.txt">>)
    /\ out.docs = {[k |-> <<"a.txt">>,
                    v |-> [src |-> <<"skills", "docs", "a.txt">>, sub |-> FALSE,
                           lists |-> {}]]}

OneEntryPerKey(m) == \A e \in m : \A g \in m : e.k = g.k => e = g

ReadmeOf(m) == CHOOSE e \in m : e.k = <<"README.md">>

\* C21 (as claimed): the scripts mapping always has a README.md entry, and
\* the README lists the file name of every script collected into the
\* mapping, at any depth below the scripts location.
C21_ReadmeListsEveryScript ==
    (cpc = "done" /\ ~out.raised) =>
        /\ <<"README.md">> \in Keys(out.scripts)
        /\ \A e \in out.scripts :
              Suffix(Last(e.k)) = ".py" => Last(e.k) \in ReadmeOf(out.scripts).v.lists

\* the skill directory with a readable instruction file at the resolved place
WithReadableSkillMd(t, s) ==
    {n \in t : ~IsPrefix(s.skill_md, n.p)} \cup {File(s.skill_md, "ok")}

Placeholder == [kind |-> "none", err |-> "none"]

\* C22: when the resolved instruction file does not exist the instruction
\* text is the placeholder naming the skill, when it cannot be read it is
\* the placeholder with the read error, and in both cases transform_skill
\* returns what it returns for the same directory with a readable
\* instruction file, the instruction text aside.
C22_InstructionFileNeverAborts ==
    (cpc = "done" /\ ~(\E n \in tree : n.p = structure.skill_md /\ n.rd = "ok")) =>
        /\ ~out.raised =>
              out.skill_md = IF Exists(tree, structure.skill_md)
                             THEN [kind |-> "read_error",
                                   err |-> (CHOOSE n \in tree : n.p = structure.skill_md).rd]
                             ELSE [kind |-> "not_found", err |-> "none"]
        /\ [out EXCEPT !.skill_md = Placeholder]
              = [TransformSkill(WithReadableSkillMd(tree, structure))
                    EXCEPT !.skill_md = Placeholder]

\* C22 witness: nested layout, skills/SKILL.md cannot be decoded, and the
\* nested docs and the examples are returned
C22_Witness ==
    /\ cpc = "done"
    /\ File(<<"skills", "SKILL.md">>, "decode") \in tree
    /\ out.skill_md = [kind |-> "read_error", err |-> "decode"]
    /\ Keys(out.docs) = {<<"a.txt">>} /\ Keys(out.examples) = {<<"a.txt">>}

\* the instruction file _detect_skill_structure resolves for the entry exists
ResolvedSkillMdExists(t, name) ==
    Exists(SourceDir(t, name), DetectSkillStructure(SourceDir(t, name)).skill_md)

RootDirs(t) == {n.p[1] : n \in {x \in t : IsDirAt(t, x.p[1])}}

AgreesWithDetector(t, name) ==
    /\ InstallSkillAccepts(t, name) <=> ResolvedSkillMdExists(t, name)
    /\ InstallSkillAccepts(t, name) =>
          TransformSkill(SourceDir(t, name)).skill_md.kind # "not_found"

\* C23 (as claimed): every directory of the repository root is listed by
\* get_available_skills, and accepted by install_skill, exactly when the
\* instruction file the detector resolves for it exists; an accepted skill
\* never gets the not-found placeholder.
C23_DiscoveryAgreesWithDetector ==
    cpc = "listed" =>
        \A name \in RootDirs(tree) :
            /\ name \in Range(skills) <=> ResolvedSkillMdExists(tree, name)
            /\ AgreesWithDetector(tree, name)

\* C23 (amended): as claimed for install_skill; get_available_skills lists
\* a directory exactly when the resolved instruction file exists and its
\* name neither starts with a dot nor is tools or claude_skillxfer.
C23_DiscoveryAgreesForListableNames ==
    cpc = "listed" =>
        \A name \in RootDirs(tree) :
            /\ name \in Range(skills) <=>
                  /\ ResolvedSkillMdExists(tree, name)
                  /\ ~StartsWithDot(name) /\ name \notin {"tools", "claude_skillxfer"}
            /\ AgreesWithDetector(tree, name)

\* C23 witness: alpha has its instruction file in skills/ only and is listed
\* beside beta, which has it at its root
C23_Witness ==
    /\ cpc = "listed"
    /\ skills = <<"alpha", "beta">>
    /\ ~Exists(tree, <<"alpha", "SKILL.md">>)
    /\ Exists(tree, <<"alpha", "skills", "SKILL.md">>)

(***************************************************************************)
(* Properties of the orchestrator                                          *)
(***************************************************************************)
LastReport == console[Len(console)]

Installed(c) == {k \in DOMAIN console : console[k].cli = c /\ console[k].ev = "installed"}

\* the files of a freshly produced output bundle, as they lie on disk
FreshFiles(c, n) == {[p |-> f.p, v |-> f.v] : f \in OutputFiles(c, n)}

\* C3: without the overwrite flag a skill whose target directory exists is
\* skipped: install_skill is not called (the only report is the skip
\* warning), the installation directories are unchanged and nothing is
\* counted; so a skill installed once in a run is skipped when it comes again.
C3_ExistingTargetIsSkipped ==
    /\ [][(pc = "install_skills" /\ si <= Len(skills)
            /\ fs[target_dir].exists /\ ~force)
          => /\ fs' = fs
             /\ success_count' = success_count
             /\ total_success' = total_success
             /\ console' = Append(console, Report("skipped", cli, skill, NoErr))]_vars
    /\ [](~force =>
            \A i \in DOMAIN console : \A j \in DOMAIN console :
                (/\ i < j
                 /\ console[i].ev = "installed"
                 /\ console[j].cli = console[i].cli
                 /\ console[j].skill = console[i].skill)
                => console[j].ev = "skipped")

\* C3 witness: the same skill twice in one run without the flag: installed the
\* first time, skipped the second time
C3_Witness ==
    /\ ~force
    /\ Len(console) = 2
    /\ console[1].ev = "installed"
    /\ console[2] = [console[1] EXCEPT !.ev = "skipped"]
    /\ success_count = 1

\* C4 (as claimed): with the overwrite flag, every skill whose target
\* directory already exists has, once install_skills has processed it, a
\* target directory that exists again and holds exactly the files of the
\* freshly produced output bundle.
C4_OverwriteReplacesTree ==
    [][(pc = "install_skills" /\ si <= Len(skills)
         /\ fs[target_dir].exists /\ force)
       => /\ fs'[target_dir].exists
          /\ fs'[target_dir].files = FreshFiles(cli, skill)
          /\ FreshFiles(cli, skill) # {}]_vars

\* C5 (as claimed): no per-item failure ends the run: when the process has
\* ended, every skill of every registered target of the run was processed
\* (a report exists for it).
C5_EveryCombinationProcessed ==
    (pc \in {"done", "crashed"}) =>
        \A i \in DOMAIN target_clis : \A j \in DOMAIN skills :
            target_clis[i] \in ADAPTERS =>
                \E k \in DOMAIN console :
                    console[k].cli = target_clis[i] /\ console[k].skill = skills[j]

\* C6: a failing write of one output file raises an OSError that names the
\* file; what was written before it stays, nothing after it in write order
\* is written, and the combination is reported as failed and not counted.
C6_WriteFailureStopsAtFile ==
    (/\ pc \in {"main", "install_skills", "done"}
     /\ console # <<>>
     /\ LastReport.ev = "failed"
     /\ LastReport.err.what # "PermissionError") =>
        \E f \in OutputFiles(LastReport.cli, LastReport.skill) :
            /\ LastReport.err = [what |-> f.what, rel |-> f.rel]
            /\ \A g \in OutputFiles(LastReport.cli, LastReport.skill) :
                  /\ g.ord < f.ord =>
                        [p |-> g.p, v |-> g.v] \in fs[LastReport.cli, LastReport.skill].files
                  /\ g.ord > f.ord =>
                        g.p \notin {e.p : e \in fs[LastReport.cli, LastReport.skill].files}
            /\ fs[LastReport.cli, LastReport.skill].exists
            /\ (pc = "install_skills" /\ cli = LastReport.cli) =>
                  success_count = Cardinality(Installed(cli))

\* C6 witness: for the Antigravity variant the write of the template fails
\* after SKILL.md and both scripts files were written
C6_Witness ==
    /\ console # <<>>
    /\ LastReport = Report("failed", "antigravity", "good",
                           [what |-> "template", rel |-> <<"a.txt">>])
    /\ {e.p : e \in fs["antigravity", "good"].files}
          = {<<"SKILL.md">>, <<"scripts", "run.py">>, <<"scripts", "README.md">>}

\* C8 (as claimed): once the installation stage was reached, the exit status
\* is failure exactly when no installation succeeded.
C8_ExitStatusFailureIffNoSuccess ==
    exit_code # -1 =>
        (exit_code = 1 <=> \A k \in DOMAIN console : console[k].ev # "installed")

\* C9: an identifier that is not a registered adapter processes no skill,
\* changes no installation directory, adds 0 to the success count, and the
\* run goes on with the next identifier.
C9_UnknownCliIsSkipped ==
    /\ [][(pc = "main" /\ ci <= Len(target_clis) /\ cli \notin ADAPTERS)
          => /\ fs' = fs
             /\ total_success' = total_success
             /\ console' = Append(console, Report("unknown_cli", cli, "-", NoErr))
             /\ pc' = "main"
             /\ ci' = ci + 1]_vars
    /\ [](\A k \in DOMAIN console :
            console[k].cli \notin ADAPTERS => console[k].ev = "unknown_cli")

\* C9 witness: the unknown identifier comes first and the skill is installed
\* for the identifier after it
C9_Witness ==
    /\ Len(console) = 2
    /\ console[1].ev = "unknown_cli"
    /\ console[2].ev = "installed"
    /\ pc = "done" /\ exit_code = 0

(***************************************************************************)
(* Properties of the text transforms                                       *)
(***************************************************************************)
\* the places of a text where the directive pattern matches
Directives(text) == {i \in DOMAIN text : DirectiveAt(text, i).ok}

Contains(text, sub) ==
    \E i \in 0..(Len(text) - Len(sub)) : SubSeq(text, i + 1, i + Len(sub)) = sub

\* the generic form of the directive found at i, its placeholder tokens
\* replaced as everywhere in the document
GenericForm(text, i) ==
    <<AT>> \o Replace(DirectiveAt(text, i).name, ROOT, ".") \o <<SP>>
    \o Replace(DirectiveAt(text, i).args, ROOT, ".")

AppendStyle == ADAPTERS \ {"cursor"}

\* C13 (as claimed): for each of the six targets, every directive of the
\* source appears in the transformed document in the generic form
\* @name args, and the directive pattern matches nowhere in the output.
C13_DirectivesRewritten ==
    (fn \in ADAPTERS /\ Len(mds) >= 1) =>
        /\ \A i \in Directives(content) : Contains(mds[1], GenericForm(content, i))
        /\ Directives(mds[1]) = {}

\* C14 (as claimed): for each of the six targets, the transformed document
\* holds no placeholder token.
C14_NoPlaceholderLeft ==
    (fn \in ADAPTERS /\ Len(mds) >= 1) => ~HasToken(mds[1], ROOT)

\* C15 (as claimed): _common_skill_md_transforms applied to its own output
\* returns that output.
C15_CommonTransformsIdempotent ==
    (fn = "common" /\ Len(mds) = 2) => mds[2] = mds[1]

\* C16 (as claimed): for each append-style target, transform_skill_md applied
\* to its own output returns that output: the section is not appended twice
\* and the appended section is not altered.
C16_AppendStyleIdempotent ==
    (fn \in AppendStyle /\ Len(mds) = 2) => mds[2] = mds[1]

\* the closing lines of a metadata header: the --- lines after the first line
ClosingLines(text) ==
    {i \in 3..(Len(text) - 1) : text[i] = "---" /\ text[i - 1] = NL /\ text[i + 1] = NL}

\* a document starts with a metadata header when its first line is --- and
\* a later line is ---
HasHeader(text) ==
    Len(text) >= 2 /\ text[1] = "---" /\ text[2] = NL /\ ClosingLines(text) # {}

\* the lines between the two --- lines, and the text after the header
HeaderOf(text) == SubSeq(text, 3, Min(ClosingLines(text)) - 1)

BodyOf(text) ==
    IF HasHeader(text) THEN SubSeq(text, Min(ClosingLines(text)) + 2, Len(text))
    ELSE text

DescriptionLine == <<"description:", SP, "Formats code", NL>>

\* s without its leading blank lines and blanks
LStrip(s) ==
    IF \A i \in DOMAIN s : IsSpace(s[i]) THEN <<>>
    ELSE SubSeq(s, Min({i \in DOMAIN s : ~IsSpace(s[i])}), Len(s))

\* what stands between the new header h and the integration note
Rewrapped(text, h) == SubSeq(text, Len(h) + 1, Len(text) - Len(Section("cursor")))

\* text is the header h, then body (blank lines before it aside), then the
\* integration note
IsRewrapOf(text, h, body) ==
    /\ Len(text) >= Len(h) + Len(Section("cursor"))
    /\ SubSeq(text, 1, Len(h)) = h
    /\ SubSeq(text, Len(text) - Len(Section("cursor")) + 1, Len(text)) = Section("cursor")
    /\ LStrip(Rewrapped(text, h)) = LStrip(body)

\* C17 (as claimed): for the Cursor target the result is the new header
\* (description, comma-joined globs, alwaysApply: false), then the commonly
\* transformed body without the original header, then the integration
\* note; a header with the fields description: Formats code and
\* globs: ["**/*.py"] gives a new header with description: Formats code and
\* globs: **/*.py.
C17_CursorRewrapsBody ==
    (fn = "cursor" /\ Len(mds) >= 1) =>
        /\ IsRewrapOf(mds[1],
                      MdcHeader(ExtractDescription(content),
                                GlobsForMdc(GetSkillGlobs(content))),
                      CommonSkillMdTransforms(BodyOf(content)))
        /\ (HasHeader(content)
            /\ Contains(HeaderOf(content), DescriptionLine)
            /\ Contains(HeaderOf(content), <<"globs:", SP, "[", Q, "**/*.py", Q, "]", NL>>))
           => /\ SubSeq(mds[1], 1, 2) \o DescriptionLine = SubSeq(mds[1], 1, 6)
              /\ SubSeq(mds[1], 7, 10) = <<"globs:", SP, "**/*.py", NL>>

\* the lines of a text, without their newlines
RECURSIVE Lines(_)
Lines(text) ==
    IF text = <<>> THEN <<>>
    ELSE IF FirstFrom(text, 1, NL) = 0 THEN <<text>>
    ELSE <<SubSeq(text, 1, FirstFrom(text, 1, NL) - 1)>>
         \o Lines(SubSeq(text, FirstFrom(text, 1, NL) + 1, Len(text)))

IsGlobsLine(line) == Len(line) >= 1 /\ line[1] = "globs:"

\* a line of a YAML list: indentation, a dash, a pattern that may be quoted
IsItemLine(line) == Len(line) >= 4 /\ SubSeq(line, 1, 3) = <<SP, SP, "- ">>

NotQuote(tok) == ~IsQuote(tok)

ItemPattern(line) == SelectSeq(SubSeq(line, 4, Len(line)), NotQuote)

\* the patterns of the list lines that follow line k, one per line
RECURSIVE ItemsAfter(_, _)
ItemsAfter(lines, k) ==
    IF k + 1 <= Len(lines) /\ IsItemLine(lines[k + 1])
    THEN <<ItemPattern(lines[k + 1])>> \o ItemsAfter(lines, k + 1)
    ELSE <<>>

\* a value without the quotes that wrap it
Unwrapped(v) ==
    IF Len(v) >= 2 /\ v[1] = "'" /\ v[Len(v)] = "'" THEN SubSeq(v, 2, Len(v) - 1) ELSE v

\* v is a JSON array of strings: [ "p" , "p" ... ]
IsJsonArrayOfStrings(v) ==
    /\ Len(v) >= 2 /\ v[1] = "[" /\ v[Len(v)] = "]"
    /\ (Len(v) - 2) % 4 = 3
    /\ \A j \in 1..(Len(v) - 2) :
          CASE j % 4 = 0 -> v[j + 1] = ", "
            [] j % 4 = 2 -> v[j + 1] \notin {Q, "'", "[", "]", ", "}
            [] OTHER -> v[j + 1] = Q

RECURSIVE PatternsOf(_)
PatternsOf(v) ==
    IF Len(v) < 5 THEN <<>>
    ELSE <<SubSeq(v, 3, 3)>> \o PatternsOf(SubSeq(v, 5, Len(v)))

\* the value of a globs line: what follows the key and the blank
ValueOf(line) == IF Len(line) >= 2 /\ line[2] = SP THEN SubSeq(line, 3, Len(line)) ELSE Tail(line)

\* the array the first globs field of the header lines stands for (a value
\* on the key's line that list lines follow is not parseable)
GlobsOfLines(lines, k) ==
    IF ValueOf(lines[k]) = <<>>
    THEN (IF ItemsAfter(lines, k) # <<>> THEN ItemsAfter(lines, k) ELSE DefaultGlobs)
    ELSE IF ItemsAfter(lines, k) = <<>> /\ IsJsonArrayOfStrings(Unwrapped(ValueOf(lines[k])))
         THEN PatternsOf(Unwrapped(ValueOf(lines[k])))
         ELSE DefaultGlobs

ExpectedGlobs(lines) ==
    IF \E k \in DOMAIN lines : IsGlobsLine(lines[k])
    THEN GlobsOfLines(lines, Min({k \in DOMAIN lines : IsGlobsLine(lines[k])}))
    ELSE DefaultGlobs

\* C18 (as claimed): _get_skill_globs returns the patterns of a YAML list
\* one per list line, the elements of a JSON array (also when the array is
\* wrapped in quotes), and the catch-all pattern alone for a missing, bare
\* or unparseable value.
C18_GlobsExtracted ==
    (fn = "globs" /\ Len(mds) = 1) => mds[1] = ExpectedGlobs(Lines(HeaderOf(content)))

IsDescriptionLine(line) == Len(line) >= 1 /\ line[1] = "description:"

\* the description the new header is to hold: the value of the header's
\* first description field with its whitespace collapsed, else the text of
\* the first level-1 heading, else 'Claude skill'
ExpectedDescription(text) ==
    IF HasHeader(text) /\ \E k \in DOMAIN Lines(HeaderOf(text)) : IsDescriptionLine(Lines(HeaderOf(text))[k])
    THEN NormFrom(ValueOf(Lines(HeaderOf(text))
                     [Min({k \in DOMAIN Lines(HeaderOf(text)) :
                              IsDescriptionLine(Lines(HeaderOf(text))[k])})]), 1, FALSE)
    ELSE IF HeadingLines(text) # {} THEN HeadingText(text, Min(HeadingLines(text)))
         ELSE <<"Claude skill">>

\* the description field of a header made by MdcHeader
WrittenDescription(text) == SubSeq(text, 5, FirstFrom(text, 5, NL) - 1)

\* the line after the first description field of the header is not a
\* heading line (which a YAML reader takes for a comment)
PlainAfterDescription(text) ==
    \A i \in DOMAIN text :
        (text[i] = "description:" /\ i + 4 <= Len(text)) => text[i + 4] # "#"

\* C26: for the Cursor target the new header's description is the value of
\* the original header's description field, whitespace collapsed, whatever
\* the field's position in the header, the last line included; without
\* such a field it is the text of the first level-1 heading, and
\* 'Claude skill' when there is none.
C26_DescriptionCarriedOver ==
    (fn = "cursor" /\ Len(mds) >= 1 /\ PlainAfterDescription(content)) =>
        WrittenDescription(mds[1]) = ExpectedDescription(content)

\* the combinations of the run in input order: targets in the order of
\* target_clis (the registered ones), under each the skills in their order
RECURSIVE CombinationsFrom(_)
CombinationsFrom(i) ==
    IF i > Len(target_clis) THEN <<>>
    ELSE (IF target_clis[i] \in ADAPTERS
          THEN [j \in 1..Len(skills) |-> <<target_clis[i], skills[j]>>]
          ELSE <<>>)
         \o CombinationsFrom(i + 1)

IsCombinationReport(r) == r.ev # "unknown_cli"

\* the combinations reported so far, in the order of their reports
Processed ==
    [k \in 1..Len(SelectSeq(console, IsCombinationReport)) |->
        <<SelectSeq(console, IsCombinationReport)[k].cli,
          SelectSeq(console, IsCombinationReport)[k].skill>>]

\* C24: the combinations are processed one after the other in input order,
\* each at most once: what has been processed is always an initial part of
\* the combinations in input order, a step processes the one combination
\* at the current position and moves to the next, and in install_skills
\* exactly the combinations before the current position are done.
C24_SequentialInInputOrder ==
    /\ [](pc # "idle" =>
            /\ Len(Processed) <= Len(CombinationsFrom(1))
            /\ Processed = SubSeq(CombinationsFrom(1), 1, Len(Processed))
            /\ pc = "install_skills" =>
                  Len(Processed) = Cardinality({i \in 1..(ci - 1) : target_clis[i] \in ADAPTERS})
                                      * Len(skills) + si - 1)
    /\ [][(pc = "install_skills" /\ console' # console) =>
            /\ console' = Append(console, console'[Len(console')])
            /\ console'[Len(console')].cli = cli /\ console'[Len(console')].skill = skill
            /\ si' = si + 1 /\ ci' = ci /\ pc' = pc]_vars

\* C24 witness: two targets and two different skills, all four combinations
\* reported
C24_Witness ==
    /\ pc = "done"
    /\ Len(target_clis) = 2 /\ Len(skills) = 2 /\ skills[1] # skills[2]
    /\ Len(Processed) = 4

\* the combinations install_skill has reported as installed so far
InstalledCount == Cardinality({k \in DOMAIN console : console[k].ev = "installed"})

\* C27: the attempted count is skills times targets; the success count
\* never exceeds it, grows by exactly one with every combination that
\* install_skill reports installed and with no other step (skipped, failed,
\* unknown target), so that it is the number of installed combinations, and
\* at the summary it equals the attempted count exactly when every
\* combination of the run was installed.
C27_SummaryCounters ==
    /\ [](pc \in {"main", "install_skills", "done", "crashed"} =>
            /\ total_success <= TotalSkills
            /\ pc \in {"main", "done"} => total_success = InstalledCount
            /\ pc = "install_skills" => total_success + success_count = InstalledCount
            /\ pc = "done" =>
                  (total_success = TotalSkills
                     <=> /\ Len(Processed) = Len(skills) * Len(target_clis)
                         /\ \A k \in DOMAIN console : console[k].ev = "installed"))
    /\ [][pc = "install_skills" =>
            /\ (console' # console /\ console'[Len(console')].ev = "installed")
                  => success_count' = success_count + 1
            /\ ~(console' # console /\ console'[Len(console')].ev = "installed")
                  => success_count' = success_count]_vars

\* C27 witness: a run over four combinations ends with one installed, one
\* skipped and one failed combination among them
C27_Witness ==
    /\ pc = "done" /\ TotalSkills = 4 /\ total_success = 1
    /\ \E k \in DOMAIN console : console[k].ev = "skipped"
    /\ \E k \in DOMAIN console : console[k].ev = "failed"

\* C27 witness of the equality: all four combinations installed
C27_WitnessAll == pc = "done" /\ TotalSkills = 4 /\ total_success = 4

\* C28: a run without the overwrite flag in which every combination was
\* skipped because its installation directory exists does not end with a
\* failure exit status.
C28_AllSkippedIsNotFailure ==
    (/\ pc = "done" /\ ~force
     /\ Len(console) = TotalSkills
     /\ \A k \in DOMAIN console : console[k].ev = "skipped") => exit_code = 0

\* the report at k is the last one about its combination
IsLastAbout(k) ==
    \A j \in (k + 1)..Len(console) :
        console[j].cli # console[k].cli \/ console[j].skill # console[k].skill

\* C29: a combination whose installation failed is not taken for installed
\* afterwards: once install_skill has reported the failure, its
\* installation directory does not exist, so that the conflict check of a
\* later run without the overwrite flag does not skip it.
C29_FailedIsNotLeftAsInstalled ==
    pc \in {"main", "install_skills", "done"} =>
        \A k \in DOMAIN console :
            (console[k].ev \in {"failed", "not_found", "invalid"} /\ IsLastAbout(k))
                => ~fs[console[k].cli, console[k].skill].exists

\* C25: after a run on a repository cloned from a URL whose cleanup did
\* not fail, nothing of the temporary clone directory is left unless
\* --keep-clone was given, with or without --sub-dir; with --keep-clone the
\* whole clone is still there.
C25_CloneRemovedUnlessKept ==
    (pc = "done" /\ is_cloned /\ cleanup # "failed") =>
        /\ ~keep_clone => temp_dir = {}
        /\ keep_clone => temp_dir = CloneTree

(***************************************************************************)
(* Properties of the written layout                                        *)
(***************************************************************************)
Categories == {"scripts", "templates", "docs", "examples"}

Category(o, cat) ==
    CASE cat = "scripts" -> o.scripts
      [] cat = "templates" -> o.templates
      [] cat = "docs" -> o.docs
      [] OTHER -> o.examples

\* the directory of a category by the names the adapter declares
DeclaredDir(c, cat) ==
    CASE cat = "scripts" -> <<"scripts">>
      [] cat = "templates" -> <<TemplatesDirName(c)>>
      [] cat = "docs" -> <<DocsDirName(c)>>
      [] OTHER -> <<"examples">>

\* the same, except that the Antigravity variant keeps templates and docs
\* under resources/
LayoutDir(c, cat) ==
    IF c = "antigravity" /\ cat = "templates" THEN <<"resources", "templates">>
    ELSE IF c = "antigravity" /\ cat = "docs" THEN <<"resources", "references">>
    ELSE DeclaredDir(c, cat)

\* every entry of the mapping m lies under the directory d with its relative
\* path, and nothing lies under d when m is empty
WrittenUnder(files, d, m) ==
    /\ \A e \in m : [p |-> d \o e.k, v |-> e.v] \in files
    /\ m = {} => \A f \in files : ~IsPrefix(d, f.p)

\* the output bundle and the installation directory of the last report
LastBundle == Transformed[LastReport.cli, LastReport.skill].o

LastTree == fs[LastReport.cli, LastReport.skill].files

\* C19 (as claimed): after write_output every non-empty category lies under
\* the directory the target declares for it (scripts, templates_dir_name,
\* docs_dir_name, examples), and an empty category has no directory.
C19_CategoriesUnderDeclaredDirs ==
    (console # <<>> /\ LastReport.ev = "installed") =>
        \A cat \in Categories :
            WrittenUnder(LastTree, DeclaredDir(LastReport.cli, cat), Category(LastBundle, cat))

\* C19 (amended): as claimed for the five other targets; the Antigravity
\* variant writes templates under resources/templates and docs under
\* resources/references, scripts and examples as claimed.
C19_CategoriesUnderLayoutDirs ==
    (console # <<>> /\ LastReport.ev = "installed") =>
        \A cat \in Categories :
            WrittenUnder(LastTree, LayoutDir(LastReport.cli, cat), Category(LastBundle, cat))

\* C19 witness: the Codex variant has written the template of "good" under
\* assets/ and no docs or examples directory
C19_Witness ==
    /\ console # <<>>
    /\ LastReport.ev = "installed" /\ LastReport.cli = "codex" /\ LastReport.skill = "good"
    /\ \E f \in LastTree : f.p = <<"assets", "a.txt">>
    /\ LastBundle.docs = {} /\ LastBundle.templates # {}

\* the files that lie directly in the installation directory
RootFiles(files) == {f \in files : Len(f.p) = 1}

\* C20: a successful installation for the Cursor target leaves the
\* instruction output as the one file S.mdc in the installation directory
\* and no SKILL.md there; for every other target it leaves the instruction
\* output as SKILL.md.
C20_InstructionFileName ==
    (console # <<>> /\ LastReport.ev = "installed") =>
        IF LastReport.cli = "cursor"
        THEN RootFiles(LastTree)
                = {[p |-> <<MdcName(LastReport.skill)>>, v |-> LastBundle.skill_md]}
        ELSE [p |-> <<"SKILL.md">>, v |-> LastBundle.skill_md] \in LastTree

\* C20 witness: "good" is installed for the Cursor target, with its rule file
\* and its scripts
C20_Witness ==
    /\ console # <<>>
    /\ LastReport.ev = "installed" /\ LastReport.cli = "cursor" /\ LastReport.skill = "good"
    /\ \E f \in LastTree : f.p = <<"good.mdc">>
    /\ \E f \in LastTree : f.p = <<"scripts", "run.py">>

====
